---- MODULE Spec2Model ----
(***************************************************************************)
(* Model of the JIRA sprint/epic aggregation of                            *)
(* jira-analysis/workflows/analyze.py (fetch_jira_data).                   *)
(*                                                                         *)
(* JSON values are records of one field, the field naming the kind:        *)
(*   None            Python None / JSON null                              *)
(*   Num(n)          an integer                                            *)
(*   Str(s)          an opaque string (keys, sprint names), s a string     *)
(*   Text(cs)        a string the code transforms (lower()), cs a tuple    *)
(*                   of one-character strings                              *)
(*   DateStr(d)      the string "YYYY-MM-DD" of day number d               *)
(*   DateTimeStr(d,t) the string "YYYY-MM-DDTHH:00:00.000+0000"            *)
(*   Dict(f)         a dict, f a function from field names to values       *)
(*   List(s)         a list                                                *)
(* A float is kept as the exact fraction [num, den] it approximates.       *)
(***************************************************************************)
EXTENDS Integers, Sequences, FiniteSets, TLC

VARIABLES
    issues,            \* the fetched issue records, in fetch order
    start_date,        \* state["start_date"], "YYYY-MM-DD"
    end_date,          \* state["end_date"], "YYYY-MM-DD"
    jira,              \* the server's answer to _issue(epic_key)
    pc,                \* position inside fetch_jira_data
    sprint_map,        \* sprint_id -> sprint info, in insertion order
    issue_sprint_map,  \* issue_key -> list of sprint ids
    filtered_sprints,  \* the selected sprints
    epic_names,        \* epic_key -> epic name
    epics,             \* the epic rollup
    sprint_metrics,    \* sprint name -> metrics record
    period_str,        \* the period token handed to the period resolver
    parsed,            \* what parse_period and _parse_period return or raise
    dates,             \* the (start_date, end_date) handed to the label formatter
    labels,            \* what the two _format_analysis_period return or raise
    state,             \* the AnalysisState handed from node to node by run()
    world,             \* what run() is called with and what it finds outside
    effects,           \* the requests, LLM calls and file writes made, in order
    args,              \* the arguments of the helper function that is called
    result,            \* what the helper function returns, raises or reports
    session            \* the locals of JiraSession._search between two requests

aggregation_vars == <<issues, start_date, end_date, jira, sprint_map, issue_sprint_map,
                      filtered_sprints, epic_names, epics, sprint_metrics>>
period_vars == <<period_str, parsed, dates, labels>>
run_vars == <<state, world, effects>>
call_vars == <<args, result, session>>

vars == <<issues, start_date, end_date, jira, pc, sprint_map, issue_sprint_map,
          filtered_sprints, epic_names, epics, sprint_metrics,
          period_str, parsed, dates, labels, state, world, effects,
          args, result, session>>

----------------------------------------------------------------------------
(* Python values *)

None == [none |-> TRUE]
Num(n) == [int |-> n]
Str(s) == [str |-> s]
Text(cs) == [text |-> cs]
DateStr(d) == [date |-> <<d>>]
DateTimeStr(d, t) == [date |-> <<d, t>>]
Dict(f) == [dict |-> f]
List(s) == [list |-> s]

\* the tag of a value and what it holds
Kind(x) == CHOOSE tag \in DOMAIN x : TRUE
Val(x) == x[Kind(x)]

NoFields == [name \in {} |-> None]
EmptyDict == Dict(NoFields)
EmptyList == List(<<>>)

\* bool(x)
Truthy(x) ==
    CASE Kind(x) = "none" -> FALSE
      [] Kind(x) = "int" -> Val(x) # 0
      [] Kind(x) = "str" -> Val(x) # ""
      [] Kind(x) = "text" -> Len(Val(x)) > 0
      [] Kind(x) = "date" -> TRUE
      [] Kind(x) = "dict" -> DOMAIN Val(x) # {}
      [] Kind(x) = "list" -> Len(Val(x)) > 0

\* d.get(f, dflt)
Get(d, f, dflt) == IF f \in DOMAIN Val(d) THEN Val(d)[f] ELSE dflt

\* x.get(...) raises AttributeError unless x is a dict
GetRaises(x) == Kind(x) # "dict"

\* x.lower() raises AttributeError unless x is a string
LowerRaises(x) == Kind(x) \notin {"str", "text", "date"}

\* x or dflt
OrElse(x, dflt) == IF Truthy(x) THEN x ELSE dflt

\* str.lower(), character by character
UpperCase == <<"A", "B", "C", "D", "E", "F", "G", "H", "I", "J", "K", "L", "M",
               "N", "O", "P", "Q", "R", "S", "T", "U", "V", "W", "X", "Y", "Z">>
LowerCase == <<"a", "b", "c", "d", "e", "f", "g", "h", "i", "j", "k", "l", "m",
               "n", "o", "p", "q", "r", "s", "t", "u", "v", "w", "x", "y", "z">>
LowerChar(c) ==
    IF \E i \in DOMAIN UpperCase : UpperCase[i] = c
    THEN LowerCase[CHOOSE i \in DOMAIN UpperCase : UpperCase[i] = c]
    ELSE c
Lower(t) == Text([i \in DOMAIN Val(t) |-> LowerChar(Val(t)[i])])

\* the literals of the completed-status test
done == Text(<<"d", "o", "n", "e">>)
closed == Text(<<"c", "l", "o", "s", "e", "d">>)
resolved == Text(<<"r", "e", "s", "o", "l", "v", "e", "d">>)
epic == Text(<<"e", "p", "i", "c">>)
CompletedStatuses == {done, closed, resolved}

\* datetime as hours since day 0
DayLen == 24

\* datetime.strptime(date_str[:19], "%Y-%m-%dT%H:%M:%S"), else
\* datetime.strptime(date_str[:10], "%Y-%m-%d")
_parse_jira_date(date_str) ==
    IF Len(Val(date_str)) = 2
    THEN Val(date_str)[1] * DayLen + Val(date_str)[2]
    ELSE Val(date_str)[1] * DayLen

\* datetime.strptime(s, "%Y-%m-%d")
strptime_date(s) == Val(s)[1] * DayLen

\* f"Sprint {sprint_id}"
SprintLabel(sprint_id) == Str("Sprint " \o ToString(Val(sprint_id)))

----------------------------------------------------------------------------
(* Sprint extraction: fetch_jira_data lines 780-805 *)

\* the entry of a sprint id already in the registry is kept
SprintMapPut_FirstWins(m, info) ==
    IF \E i \in DOMAIN m : m[i].id = info.id THEN m ELSE Append(m, info)

\* sprint_map[sprint_id] = {...} on an insertion-ordered dict
SprintMapPut(m, info) ==
    IF \E i \in DOMAIN m : m[i].id = info.id
    THEN [i \in DOMAIN m |-> IF m[i].id = info.id THEN info ELSE m[i]]
    ELSE Append(m, info)

\* issue_sprint_map[issue_key].append(sprint_id), creating the list when absent
IssueSprintMapAppend(m, issue_key, sprint_id) ==
    IF issue_key \in DOMAIN m
    THEN [m EXCEPT ![issue_key] = Append(@, sprint_id)]
    ELSE [x \in DOMAIN m \cup {issue_key} |->
            IF x = issue_key THEN <<sprint_id>> ELSE m[x]]

\* the record stored in sprint_map for one entry of customfield_10020
SprintInfo(sprint_info) ==
    LET sprint_id == Get(sprint_info, "id", None) IN
    [id |-> sprint_id,
     name |-> Get(sprint_info, "name", SprintLabel(sprint_id)),
     state |-> Get(sprint_info, "state", Str("")),
     startDate |-> Get(sprint_info, "startDate", None),
     endDate |-> Get(sprint_info, "endDate", None),
     completeDate |-> Get(sprint_info, "completeDate", None)]

\* for sprint_info in sprints_field
RECURSIVE ScanSprintsField(_, _, _)
ScanSprintsField(issue_key, sprints_field, acc) ==
    IF sprints_field = <<>> THEN acc
    ELSE LET sprint_info == Head(sprints_field)
             sprint_id == Get(sprint_info, "id", None)
             next == IF Truthy(sprint_id)
                     THEN [sprint_map |->
                               SprintMapPut(acc.sprint_map, SprintInfo(sprint_info)),
                           issue_sprint_map |->
                               IssueSprintMapAppend(acc.issue_sprint_map,
                                                    issue_key, sprint_id)]
                     ELSE acc
         IN ScanSprintsField(issue_key, Tail(sprints_field), next)

\* for issue in issues
RECURSIVE ScanIssues(_, _)
ScanIssues(iss, acc) ==
    IF iss = <<>> THEN acc
    ELSE LET issue == Head(iss)
             issue_key == Get(issue, "key", None)
             fields == Get(issue, "fields", EmptyDict)
             sprints_field == Get(fields, "customfield_10020", EmptyList)
             next == IF Truthy(sprints_field)
                     THEN ScanSprintsField(issue_key, Val(sprints_field), acc)
                     ELSE acc
         IN ScanIssues(Tail(iss), next)

\* lines 785-790: the scan raises on a null fields record and on a sprint
\* field that is neither empty nor a list of dicts
ExtractRaises(iss) ==
    \E i \in DOMAIN iss :
        LET fields == Get(iss[i], "fields", EmptyDict) IN
        \/ GetRaises(fields)
        \/ LET sprints_field == Get(fields, "customfield_10020", EmptyList) IN
           /\ Truthy(sprints_field)
           /\ \/ Kind(sprints_field) # "list"
              \/ \E j \in DOMAIN Val(sprints_field) : GetRaises(Val(sprints_field)[j])

ExtractedSprints(iss) ==
    ScanIssues(iss, [sprint_map |-> <<>>, issue_sprint_map |-> <<>>])

----------------------------------------------------------------------------
(* Sprint selection: fetch_jira_data lines 633-634 and 807-817 *)

\* either comparison is enough
InDateRange_Or(sprint_info, start_dt, end_dt) ==
    /\ Truthy(sprint_info.startDate)
    /\ Truthy(sprint_info.endDate)
    /\ \/ _parse_jira_date(sprint_info.startDate) <= end_dt
       \/ _parse_jira_date(sprint_info.endDate) >= start_dt

\* a missing date is no obstacle
InDateRange_MissingDatesPass(sprint_info, start_dt, end_dt) ==
    /\ Truthy(sprint_info.startDate) =>
           _parse_jira_date(sprint_info.startDate) <= end_dt
    /\ Truthy(sprint_info.endDate) =>
           _parse_jira_date(sprint_info.endDate) >= start_dt

\* sprint_start_dt <= end_dt and sprint_end_dt >= start_dt, both dates present
InDateRange(sprint_info, start_dt, end_dt) ==
    /\ Truthy(sprint_info.startDate)
    /\ Truthy(sprint_info.endDate)
    /\ _parse_jira_date(sprint_info.startDate) <= end_dt
    /\ _parse_jira_date(sprint_info.endDate) >= start_dt

FilteredSprints(m, start, end) ==
    LET start_dt == strptime_date(start)
        end_dt == strptime_date(end)
    IN SelectSeq(m, LAMBDA sprint_info : InDateRange(sprint_info, start_dt, end_dt))

----------------------------------------------------------------------------
(* Issue classification *)

\* parent.get("key") if isinstance(parent, dict) else str(parent)
ParentKey(parent) ==
    IF Kind(parent) = "dict" THEN Get(parent, "key", None) ELSE parent

\* issue_type.get("name", "").lower() == "epic"
IsEpic(fields) ==
    LET issue_type == Get(fields, "issuetype", EmptyDict) IN
    Lower(Get(issue_type, "name", Text(<<>>))) = epic

\* lines 917-927, 994-1001 and 1027-1034: the epic key before the sentinel
RawEpicKey(issue) ==
    LET fields == Get(issue, "fields", EmptyDict)
        parent == Get(fields, "parent", None)
    IN IF Truthy(parent) THEN ParentKey(parent)
       ELSE IF IsEpic(fields) THEN Get(issue, "key", None)
       ELSE None

\* lines 879-884, 920-927 and 996-1001: without a parent the issue type is
\* read, which raises on a null issue type and on a null type name
ClassifyRaises(issue) ==
    LET fields == Get(issue, "fields", EmptyDict)
        issue_type == Get(fields, "issuetype", EmptyDict)
    IN /\ ~Truthy(Get(fields, "parent", None))
       /\ \/ GetRaises(issue_type)
          \/ LowerRaises(Get(issue_type, "name", Text(<<>>)))

\* lines 1003-1004 and 1035-1036
SprintEpicKey(issue) ==
    LET epic_key == RawEpicKey(issue) IN
    IF ~Truthy(epic_key) THEN Str("Uncategorized") ELSE epic_key

\* the sentinel of the sprint aggregator
RollupEpicKey_Uncategorized(issue) ==
    LET epic_key == RawEpicKey(issue) IN
    IF ~Truthy(epic_key) THEN Str("Uncategorized") ELSE epic_key

\* lines 930-931
RollupEpicKey(issue) ==
    LET epic_key == RawEpicKey(issue) IN
    IF ~Truthy(epic_key) THEN Str("_no_epic") ELSE epic_key


----------------------------------------------------------------------------
(* Epic rollup: fetch_jira_data lines 868-950 *)

\* an exception raised by the call
Raised == [raise |-> TRUE]

\* d[key] = value on a dict kept as a function
Put(d, key, value) ==
    [x \in DOMAIN d \cup {key} |-> IF x = key THEN value ELSE d[x]]

\* first pass, lines 872-887
EpicKeysToFetch(iss) ==
    {RawEpicKey(iss[i]) : i \in DOMAIN iss} \ {k \in {RawEpicKey(iss[i]) : i \in DOMAIN iss} :
        ~Truthy(k) \/ k = Str("_no_epic")}

\* lines 896-904: the summary of the epic, the key when absent or not fetched
EpicName(server, epic_key) ==
    LET epic_issue == server[epic_key] IN
    IF epic_issue = Raised THEN epic_key
    ELSE Get(Get(epic_issue, "fields", EmptyDict), "summary", epic_key)

FetchedEpicNames(server, iss) ==
    [epic_key \in EpicKeysToFetch(iss) |-> EpicName(server, epic_key)]

\* fields.get(f, 0) or 0
NumField(fields, f) == Val(OrElse(Get(fields, f, Num(0)), Num(0)))

\* only the issues that carry a sprint are accumulated
RECURSIVE OrganizeEpics_SprintMembersOnly(_, _, _)
OrganizeEpics_SprintMembersOnly(iss, names, acc) ==
    IF iss = <<>> THEN acc
    ELSE LET issue == Head(iss)
             fields == Get(issue, "fields", EmptyDict)
             epic_key == RollupEpicKey(issue)
             epic_name == IF epic_key # Str("_no_epic")
                          THEN IF epic_key \in DOMAIN names
                               THEN names[epic_key] ELSE epic_key
                          ELSE Str("Uncategorized")
             old == IF epic_key \in DOMAIN acc THEN acc[epic_key]
                    ELSE [key |-> epic_key, name |-> epic_name, issues |-> <<>>,
                          total_time_spent |-> 0, total_time_estimate |-> 0]
             new == [old EXCEPT
                        !.issues = Append(@, issue),
                        !.total_time_spent = @ + NumField(fields, "timespent"),
                        !.total_time_estimate =
                            @ + NumField(fields, "timeoriginalestimate")]
             next == IF Truthy(Get(fields, "customfield_10020", EmptyList))
                     THEN Put(acc, epic_key, new) ELSE acc
         IN OrganizeEpics_SprintMembersOnly(Tail(iss), names, next)

\* second pass, lines 913-950
RECURSIVE OrganizeEpics(_, _, _)
OrganizeEpics(iss, names, acc) ==
    IF iss = <<>> THEN acc
    ELSE LET issue == Head(iss)
             fields == Get(issue, "fields", EmptyDict)
             epic_key == RollupEpicKey(issue)
             epic_name == IF epic_key # Str("_no_epic")
                          THEN IF epic_key \in DOMAIN names
                               THEN names[epic_key] ELSE epic_key
                          ELSE Str("Uncategorized")
             old == IF epic_key \in DOMAIN acc THEN acc[epic_key]
                    ELSE [key |-> epic_key, name |-> epic_name, issues |-> <<>>,
                          total_time_spent |-> 0, total_time_estimate |-> 0]
             new == [old EXCEPT
                        !.issues = Append(@, issue),
                        !.total_time_spent = @ + NumField(fields, "timespent"),
                        !.total_time_estimate =
                            @ + NumField(fields, "timeoriginalestimate")]
         IN OrganizeEpics(Tail(iss), names, Put(acc, epic_key, new))

\* both passes raise on the first issue whose classification raises
OrganizeRaises(iss) == \E i \in DOMAIN iss : ClassifyRaises(iss[i])

----------------------------------------------------------------------------
(* Sprint metrics: fetch_jira_data lines 952-1083 *)

Range(s) == {s[i] : i \in DOMAIN s}

RECURSIVE SeqSum(_)
SeqSum(s) == IF s = <<>> THEN 0 ELSE Head(s) + SeqSum(Tail(s))

Fields(issue) == Get(issue, "fields", EmptyDict)

\* fields.get("status", {}).get("name", "")
StatusName(issue) == Get(Get(Fields(issue), "status", EmptyDict), "name", Text(<<>>))

\* a status that contains one of the literals
IsCompleted_Contains(issue) ==
    LET name == Val(Lower(StatusName(issue))) IN
    \E lit \in CompletedStatuses : \E i \in 0..Len(name) :
        /\ i + Len(Val(lit)) <= Len(name)
        /\ SubSeq(name, i + 1, i + Len(Val(lit))) = Val(lit)

\* status_name in ["done", "closed", "resolved"], status_name lower-cased
IsCompleted(issue) == Lower(StatusName(issue)) \in CompletedStatuses

\* int(story_points) if story_points else 0
StoryPoints(issue) ==
    LET story_points == Get(Fields(issue), "customfield_10033", None) IN
    IF Truthy(story_points) THEN Val(story_points) ELSE 0

\* lines 958-965: the issues of the list that belong to the sprint
UserSprintIssues(iss, ism, sprint_id) ==
    SelectSeq(iss, LAMBDA issue :
        LET issue_key == Get(issue, "key", None) IN
        issue_key \in DOMAIN ism /\ sprint_id \in Range(ism[issue_key]))

\* lines 979 and 1006-1008: story points accumulated per epic key
EpicAllocation(user_sprint_issues) ==
    [epic_key \in {SprintEpicKey(user_sprint_issues[i]) : i \in DOMAIN user_sprint_issues} |->
        SeqSum([i \in DOMAIN user_sprint_issues |->
            IF SprintEpicKey(user_sprint_issues[i]) = epic_key
            THEN StoryPoints(user_sprint_issues[i]) ELSE 0])]

\* lines 1024-1039: issues counted per epic key
EpicAllocationByCount(user_sprint_issues) ==
    [epic_key \in {SprintEpicKey(user_sprint_issues[i]) : i \in DOMAIN user_sprint_issues} |->
        Cardinality({i \in DOMAIN user_sprint_issues :
            SprintEpicKey(user_sprint_issues[i]) = epic_key})]

\* (n / d) * 100 as an exact fraction
Percent(n, d) == [num |-> n * 100, den |-> d]

\* story points divided by the number of issues
EpicPercentages_CountDenominator(user_sprint_issues) ==
    LET epic_allocation == EpicAllocation(user_sprint_issues) IN
    IF user_sprint_issues = <<>> THEN <<>>
    ELSE [epic_key \in DOMAIN epic_allocation |->
             Percent(epic_allocation[epic_key], Len(user_sprint_issues))]

\* no allocation at all without story points
EpicPercentages_NoFallback(user_sprint_issues) ==
    LET epic_allocation == EpicAllocation(user_sprint_issues)
        total_sprint_points ==
            SeqSum([i \in DOMAIN user_sprint_issues |->
                        StoryPoints(user_sprint_issues[i])])
    IN IF total_sprint_points > 0
       THEN [epic_key \in DOMAIN epic_allocation |->
                Percent(epic_allocation[epic_key], total_sprint_points)]
       ELSE <<>>

\* only the epics with story points get an entry
EpicPercentages_NonzeroOnly(user_sprint_issues) ==
    LET epic_allocation == EpicAllocation(user_sprint_issues)
        total_sprint_points ==
            SeqSum([i \in DOMAIN user_sprint_issues |->
                        StoryPoints(user_sprint_issues[i])])
        epic_allocation_by_count == EpicAllocationByCount(user_sprint_issues)
        total_issues_count == Len(user_sprint_issues)
    IN IF total_sprint_points > 0
       THEN [epic_key \in {k \in DOMAIN epic_allocation : epic_allocation[k] # 0} |->
                Percent(epic_allocation[epic_key], total_sprint_points)]
       ELSE IF total_issues_count > 0
            THEN [epic_key \in DOMAIN epic_allocation_by_count |->
                    Percent(epic_allocation_by_count[epic_key], total_issues_count)]
            ELSE <<>>

\* lines 1009 and 1016-1045
EpicPercentages(user_sprint_issues) ==
    LET epic_allocation == EpicAllocation(user_sprint_issues)
        total_sprint_points ==
            SeqSum([i \in DOMAIN user_sprint_issues |->
                        StoryPoints(user_sprint_issues[i])])
        epic_allocation_by_count == EpicAllocationByCount(user_sprint_issues)
        total_issues_count == Len(user_sprint_issues)
    IN IF total_sprint_points > 0
       THEN [epic_key \in DOMAIN epic_allocation |->
                Percent(epic_allocation[epic_key], total_sprint_points)]
       ELSE IF total_issues_count > 0
            THEN [epic_key \in DOMAIN epic_allocation_by_count |->
                    Percent(epic_allocation_by_count[epic_key], total_issues_count)]
            ELSE <<>>

\* the story points of all member issues
CompletedPoints_AllIssues(user_sprint_issues) ==
    SeqSum([i \in DOMAIN user_sprint_issues |-> StoryPoints(user_sprint_issues[i])])

\* lines 974-975 and 1011-1013
CompletedPoints(user_sprint_issues) ==
    SeqSum([i \in DOMAIN user_sprint_issues |->
        IF IsCompleted(user_sprint_issues[i])
        THEN StoryPoints(user_sprint_issues[i]) ELSE 0])

CompletedIssues(user_sprint_issues) ==
    Cardinality({i \in DOMAIN user_sprint_issues : IsCompleted(user_sprint_issues[i])})

\* the completed member issues, the last one first
Accomplishments_LastFirst(user_sprint_issues) ==
    LET completed == SelectSeq(user_sprint_issues,
                               LAMBDA issue : Lower(StatusName(issue)) \in CompletedStatuses)
    IN [i \in DOMAIN completed |->
           LET issue == completed[Len(completed) + 1 - i] IN
           [key |-> Get(issue, "key", None),
            summary |-> Get(Fields(issue), "summary", Str("")),
            type |-> Get(Get(Fields(issue), "issuetype", EmptyDict),
                         "name", Text(<<>>))]]

\* lines 1047-1057
Accomplishments(user_sprint_issues) ==
    LET completed == SelectSeq(user_sprint_issues,
                               LAMBDA issue : Lower(StatusName(issue)) \in CompletedStatuses)
    IN [i \in DOMAIN completed |->
           [key |-> Get(completed[i], "key", None),
            summary |-> Get(Fields(completed[i]), "summary", Str("")),
            type |-> Get(Get(Fields(completed[i]), "issuetype", EmptyDict),
                         "name", Text(<<>>))]]

\* lines 1075-1082
AllIssues(user_sprint_issues) ==
    [i \in DOMAIN user_sprint_issues |->
        [key |-> Get(user_sprint_issues[i], "key", None),
         summary |-> Get(Fields(user_sprint_issues[i]), "summary", Str("")),
         status |-> StatusName(user_sprint_issues[i])]]

\* lines 986, 1053 and 1079: fields.get("status", {}).get("name", "").lower()
StatusRaises(issue) ==
    LET status == Get(Get(issue, "fields", EmptyDict), "status", EmptyDict) IN
    GetRaises(status) \/ LowerRaises(Get(status, "name", Text(<<>>)))

\* line 1054: fields.get("issuetype", {}).get("name", "")
TypeNameRaises(issue) ==
    GetRaises(Get(Get(issue, "fields", EmptyDict), "issuetype", EmptyDict))

\* lines 954-1083 raise on the first member issue of a selected sprint whose
\* status, classification or type name raises
MetricsRaises(sprints, iss, ism) ==
    \E y \in DOMAIN sprints :
        LET user_sprint_issues == UserSprintIssues(iss, ism, sprints[y].id) IN
        \E i \in DOMAIN user_sprint_issues :
            \/ StatusRaises(user_sprint_issues[i])
            \/ ClassifyRaises(user_sprint_issues[i])
            \/ TypeNameRaises(user_sprint_issues[i])

\* lines 1059-1083: the record of one sprint
SprintMetricsRecord(sprint, user_sprint_issues) ==
    [sprint_id |-> sprint.id,
     name |-> sprint.name,
     start_date |-> sprint.startDate,
     end_date |-> sprint.endDate,
     total_issues |-> Len(user_sprint_issues),
     completed_issues |-> CompletedIssues(user_sprint_issues),
     completion_rate |->
         Percent(CompletedIssues(user_sprint_issues), Len(user_sprint_issues)),
     total_estimate |->
         SeqSum([i \in DOMAIN user_sprint_issues |->
                    NumField(Fields(user_sprint_issues[i]), "timeoriginalestimate")]),
     total_spent |->
         SeqSum([i \in DOMAIN user_sprint_issues |->
                    NumField(Fields(user_sprint_issues[i]), "timespent")]),
     velocity |-> CompletedPoints(user_sprint_issues),
     completed_points |-> CompletedPoints(user_sprint_issues),
     accomplishments |-> Accomplishments(user_sprint_issues),
     epic_allocation |-> EpicPercentages(user_sprint_issues),
     all_issues |-> AllIssues(user_sprint_issues)]

\* for sprint in filtered_sprints, lines 954-1083
RECURSIVE SprintMetrics(_, _, _, _)
SprintMetrics(sprints, iss, ism, acc) ==
    IF sprints = <<>> THEN acc
    ELSE LET sprint == Head(sprints)
             user_sprint_issues == UserSprintIssues(iss, ism, sprint.id)
             next == IF user_sprint_issues = <<>> THEN acc
                     ELSE Put(acc, sprint.name,
                              SprintMetricsRecord(sprint, user_sprint_issues))
         IN SprintMetrics(Tail(sprints), iss, ism, next)


----------------------------------------------------------------------------
(* Period resolver and label formatter.  A string is the tuple of its       *)
(* characters; the prose of a message or label is kept as one element.     *)

DigitChars == <<"0", "1", "2", "3", "4", "5", "6", "7", "8", "9">>
IsDigit(c) == \E i \in DOMAIN DigitChars : DigitChars[i] = c
DigitValue(c) == (CHOOSE i \in DOMAIN DigitChars : DigitChars[i] = c) - 1
AllDigits(s) == \A i \in DOMAIN s : IsDigit(s[i])

\* the characters str.strip() removes
Whitespace == {" ", "\t", "\n"}

RECURSIVE LStrip(_)
LStrip(s) == IF s # <<>> /\ Head(s) \in Whitespace THEN LStrip(Tail(s)) ELSE s

RECURSIVE RStrip(_)
RStrip(s) ==
    IF s # <<>> /\ s[Len(s)] \in Whitespace THEN RStrip(SubSeq(s, 1, Len(s) - 1)) ELSE s

Strip(s) == RStrip(LStrip(s))

\* str.upper(), character by character
UpperChar(c) ==
    IF \E i \in DOMAIN LowerCase : LowerCase[i] = c
    THEN UpperCase[CHOOSE i \in DOMAIN LowerCase : LowerCase[i] = c]
    ELSE c
Upper(s) == [i \in DOMAIN s |-> UpperChar(s[i])]

\* int(s) of a string of digits
RECURSIVE IntOf(_)
IntOf(s) ==
    IF s = <<>> THEN 0 ELSE IntOf(SubSeq(s, 1, Len(s) - 1)) * 10 + DigitValue(s[Len(s)])

\* str(n), n >= 0: the decimal digits without padding
RECURSIVE Decimal(_)
Decimal(n) ==
    IF n < 10 THEN <<DigitChars[n + 1]>>
    ELSE Decimal(n \div 10) \o <<DigitChars[(n % 10) + 1]>>

\* return value / raise ValueError(msg): how a call ends
Return(value) == [return |-> value]
ValueError(msg) == [raise |-> msg]

\* any digit names a half
HalfMatch_AnyHalf(s) ==
    Len(s) = 6 /\ AllDigits(SubSeq(s, 1, 4)) /\ s[5] = "H" /\ IsDigit(s[6])

\* re.match(r"^(\d{4})H([12])$", s)
HalfMatch(s) ==
    Len(s) = 6 /\ AllDigits(SubSeq(s, 1, 4)) /\ s[5] = "H" /\ s[6] \in {"1", "2"}

\* re.match(r"^(\d{4})Q([1-4])$", s)
QuarterMatch(s) ==
    Len(s) = 6 /\ AllDigits(SubSeq(s, 1, 4)) /\ s[5] = "Q"
        /\ s[6] \in {"1", "2", "3", "4"}

\* re.match(r"^(\d{4})$", s)
YearMatch(s) == Len(s) = 4 /\ AllDigits(s)

\* f"{year}-MM-DD"
DateOf(year, mmdd) == Decimal(year) \o <<"-">> \o mmdd

Jan01 == <<"0", "1", "-", "0", "1">>
Mar31 == <<"0", "3", "-", "3", "1">>
Apr01 == <<"0", "4", "-", "0", "1">>
Jun30 == <<"0", "6", "-", "3", "0">>
Jul01 == <<"0", "7", "-", "0", "1">>
Sep30 == <<"0", "9", "-", "3", "0">>
Oct01 == <<"1", "0", "-", "0", "1">>
Dec31 == <<"1", "2", "-", "3", "1">>

\* the dict quarter_dates
quarter_dates(year) ==
    [quarter \in 1..4 |->
        CASE quarter = 1 -> <<DateOf(year, Jan01), DateOf(year, Mar31)>>
          [] quarter = 2 -> <<DateOf(year, Apr01), DateOf(year, Jun30)>>
          [] quarter = 3 -> <<DateOf(year, Jul01), DateOf(year, Sep30)>>
          [] quarter = 4 -> <<DateOf(year, Oct01), DateOf(year, Dec31)>>]

AcceptedFormats ==
    "Use format: YYYYH1, YYYYH2, YYYYQ1-Q4, or YYYY (e.g., '2025H2', '2026Q1', '2025')"

\* the ValueError of both resolvers, built from the stripped upper-case token
InvalidPeriod(s) ==
    ValueError(<<"Invalid period format: ">> \o s \o <<". ", AcceptedFormats>>)

\* shared/cli_utils.py parse_period
parse_period(token) ==
    LET s == Upper(Strip(token)) IN
    IF HalfMatch(s)
    THEN LET year == IntOf(SubSeq(s, 1, 4)) IN
         IF s[6] = "1" THEN Return(<<DateOf(year, Jan01), DateOf(year, Jun30)>>)
         ELSE Return(<<DateOf(year, Jul01), DateOf(year, Dec31)>>)
    ELSE IF QuarterMatch(s)
    THEN Return(quarter_dates(IntOf(SubSeq(s, 1, 4)))[IntOf(<<s[6]>>)])
    ELSE IF YearMatch(s)
    THEN LET year == IntOf(s) IN Return(<<DateOf(year, Jan01), DateOf(year, Dec31)>>)
    ELSE InvalidPeriod(s)

\* jira-analysis/workflows/analyze.py _parse_period
_parse_period(token) ==
    LET s == Upper(Strip(token)) IN
    IF HalfMatch(s)
    THEN LET year == IntOf(SubSeq(s, 1, 4)) IN
         IF s[6] = "1" THEN Return(<<DateOf(year, Jan01), DateOf(year, Jun30)>>)
         ELSE Return(<<DateOf(year, Jul01), DateOf(year, Dec31)>>)
    ELSE IF QuarterMatch(s)
    THEN Return(quarter_dates(IntOf(SubSeq(s, 1, 4)))[IntOf(<<s[6]>>)])
    ELSE IF YearMatch(s)
    THEN LET year == IntOf(s) IN Return(<<DateOf(year, Jan01), DateOf(year, Dec31)>>)
    ELSE InvalidPeriod(s)

\* calendar.monthrange: the days of the month
DaysIn(year, month) ==
    IF month = 2
    THEN IF year % 4 = 0 /\ (year % 100 # 0 \/ year % 400 = 0) THEN 29 ELSE 28
    ELSE IF month \in {4, 6, 9, 11} THEN 30 ELSE 31

\* datetime.strptime(s, "%Y-%m-%d") on a string of characters: four digits,
\* a month and a day of one or two digits, a date of the calendar; a
\* ValueError otherwise
strptime_ymd(s) ==
    LET rest == IF Len(s) > 5 THEN SubSeq(s, 6, Len(s)) ELSE <<>>
        cut == {k \in DOMAIN rest : rest[k] = "-"}
        k == CHOOSE k \in cut : TRUE
        mm == SubSeq(rest, 1, k - 1)
        dd == SubSeq(rest, k + 1, Len(rest))
    IN IF /\ Len(s) > 5
          /\ AllDigits(SubSeq(s, 1, 4))
          /\ s[5] = "-"
          /\ Cardinality(cut) = 1
          /\ Len(mm) \in {1, 2} /\ AllDigits(mm) /\ IntOf(mm) \in 1..12
          /\ Len(dd) \in {1, 2} /\ AllDigits(dd)
          /\ IntOf(dd) \in 1..DaysIn(IntOf(SubSeq(s, 1, 4)), IntOf(mm))
          /\ IntOf(SubSeq(s, 1, 4)) >= 1
       THEN [year |-> IntOf(SubSeq(s, 1, 4)), month |-> IntOf(mm), day |-> IntOf(dd)]
       ELSE ValueError(<<"time data does not match format">>)

IsError(x) == DOMAIN x = {"raise"}

\* f"{year}{suffix} ({prose}{year})"
PeriodLabel(year, suffix, prose) ==
    Decimal(year) \o suffix \o <<prose>> \o Decimal(year) \o <<")">>

\* f"{start_date} to {end_date}"
FallbackLabel(start, end) == start \o <<" to ">> \o end

\* the dict period_patterns of jira-analysis/workflows/analyze.py
period_patterns(year) ==
    (<<1, 1, 12, 31>> :> PeriodLabel(year, <<>>, " (January 1 - December 31, ")) @@
    (<<7, 1, 12, 31>> :> PeriodLabel(year, <<"H", "2">>, " (July 1 - December 31, ")) @@
    (<<1, 1, 6, 30>> :> PeriodLabel(year, <<"H", "1">>, " (January 1 - June 30, ")) @@
    (<<1, 1, 3, 31>> :> PeriodLabel(year, <<"Q", "1">>, " (January 1 - March 31, ")) @@
    (<<4, 1, 6, 30>> :> PeriodLabel(year, <<"Q", "2">>, " (April 1 - June 30, ")) @@
    (<<7, 1, 9, 30>> :> PeriodLabel(year, <<"Q", "3">>, " (July 1 - September 30, ")) @@
    (<<10, 1, 12, 31>> :> PeriodLabel(year, <<"Q", "4">>, " (October 1 - December 31, "))

\* jira-analysis/workflows/analyze.py _format_analysis_period
_format_analysis_period(start, end) ==
    LET start_dt == strptime_ymd(start)
        end_dt == strptime_ymd(end)
    IN IF IsError(start_dt) THEN start_dt
       ELSE IF IsError(end_dt) THEN end_dt
       ELSE LET pattern_key == <<start_dt.month, start_dt.day, end_dt.month, end_dt.day>> IN
            IF pattern_key \in DOMAIN period_patterns(start_dt.year)
            THEN Return(period_patterns(start_dt.year)[pattern_key])
            ELSE Return(FallbackLabel(start, end))

\* eiq/gh-analysis/workflows/analyze.py _format_analysis_period
gh_format_analysis_period(start, end) ==
    LET start_dt == strptime_ymd(start)
        end_dt == strptime_ymd(end)
        Is(m1, d1, m2, d2) ==
            start_dt.month = m1 /\ start_dt.day = d1 /\ end_dt.month = m2 /\ end_dt.day = d2
    IN IF IsError(start_dt) THEN start_dt
       ELSE IF IsError(end_dt) THEN end_dt
       ELSE IF Is(1, 1, 12, 31)
       THEN Return(PeriodLabel(start_dt.year, <<>>, " (January 1 - December 31, "))
       ELSE IF Is(7, 1, 12, 31)
       THEN Return(PeriodLabel(start_dt.year, <<"H", "2">>, " (July 1 - December 31, "))
       ELSE IF Is(1, 1, 6, 30)
       THEN Return(PeriodLabel(start_dt.year, <<"H", "1">>, " (January 1 - June 30, "))
       ELSE IF Is(1, 1, 3, 31)
       THEN Return(PeriodLabel(start_dt.year, <<"Q", "1">>, " (January 1 - March 31, "))
       ELSE IF Is(4, 1, 6, 30)
       THEN Return(PeriodLabel(start_dt.year, <<"Q", "2">>, " (April 1 - June 30, "))
       ELSE IF Is(7, 1, 9, 30)
       THEN Return(PeriodLabel(start_dt.year, <<"Q", "3">>, " (July 1 - September 30, "))
       ELSE IF Is(10, 1, 12, 31)
       THEN Return(PeriodLabel(start_dt.year, <<"Q", "4">>, " (October 1 - December 31, "))
       ELSE Return(FallbackLabel(start, end))

\* eiq/shared/config_utils.py format_analysis_period, lines 14-38
format_analysis_period(start, end) ==
    LET start_dt == strptime_ymd(start)
        end_dt == strptime_ymd(end)
        pattern_key == <<start_dt.month, start_dt.day, end_dt.month, end_dt.day>>
    IN IF IsError(start_dt) THEN start_dt
       ELSE IF IsError(end_dt) THEN end_dt
       ELSE IF pattern_key = <<7, 1, 12, 31>>
       THEN Return(PeriodLabel(start_dt.year, <<"H", "2">>, " (July 1 - December 31, "))
       ELSE IF pattern_key = <<1, 1, 6, 30>>
       THEN Return(PeriodLabel(start_dt.year, <<"H", "1">>, " (January 1 - June 30, "))
       ELSE Return(FallbackLabel(start, end))

----------------------------------------------------------------------------
(* Command-line helpers: shared/cli_utils.py *)

\* str.lower() on a string of characters; the one letter outside ASCII that
\* the inputs carry goes to its lower-case form
str_lower(s) == [i \in DOMAIN s |-> IF s[i] = "É" THEN "é" ELSE LowerChar(s[i])]

\* str.upper() likewise
str_upper(s) == [i \in DOMAIN s |-> IF s[i] = "é" THEN "É" ELSE UpperChar(s[i])]

\* re.sub(r"[\s_]+", "-", text): every run of whitespace and underscores
\* becomes one hyphen
RECURSIVE SubSpaces(_)
SubSpaces(s) ==
    IF s = <<>> THEN <<>>
    ELSE IF Head(s) \in Whitespace \cup {"_"}
    THEN IF Len(s) > 1 /\ s[2] \in Whitespace \cup {"_"}
         THEN SubSpaces(Tail(s))
         ELSE <<"-">> \o SubSpaces(Tail(s))
    ELSE <<Head(s)>> \o SubSpaces(Tail(s))

\* [a-z0-9-]
IsSlugChar(c) ==
    \/ \E i \in DOMAIN LowerCase : LowerCase[i] = c
    \/ IsDigit(c)
    \/ c = "-"

\* re.sub(r"[^a-z0-9-]", "", text)
SubOthers(s) == SelectSeq(s, IsSlugChar)

\* re.sub(r"-+", "-", text)
RECURSIVE SubHyphens(_)
SubHyphens(s) ==
    IF s = <<>> THEN <<>>
    ELSE IF Head(s) = "-" /\ Len(s) > 1 /\ s[2] = "-"
    THEN SubHyphens(Tail(s))
    ELSE <<Head(s)>> \o SubHyphens(Tail(s))

\* the hyphens at both ends stay
StripHyphens_Kept(s) == s

\* text.strip("-")
RECURSIVE StripHyphens(_)
StripHyphens(s) ==
    IF s # <<>> /\ Head(s) = "-" THEN StripHyphens(Tail(s))
    ELSE IF s # <<>> /\ s[Len(s)] = "-" THEN StripHyphens(SubSeq(s, 1, Len(s) - 1))
    ELSE s

\* slugify(text), lines 17-29
slugify(text) == StripHyphens(SubHyphens(SubOthers(SubSpaces(str_lower(text)))))

\* slug.split("-"): the pieces between the hyphens, empty ones included
RECURSIVE Split(_, _)
Split(s, sep) ==
    IF \A i \in DOMAIN s : s[i] # sep THEN <<s>>
    ELSE LET k == CHOOSE i \in DOMAIN s :
                      s[i] = sep /\ \A j \in 1..(i - 1) : s[j] # sep
         IN <<SubSeq(s, 1, k - 1)>> \o Split(SubSeq(s, k + 1, Len(s)), sep)

\* word.capitalize()
capitalize(word) ==
    IF word = <<>> THEN <<>>
    ELSE str_upper(<<Head(word)>>) \o str_lower(Tail(word))

\* sep.join(words)
RECURSIVE Join(_, _)
Join(words, sep) ==
    IF words = <<>> THEN <<>>
    ELSE IF Len(words) = 1 THEN words[1]
    ELSE words[1] \o <<sep>> \o Join(Tail(words), sep)

\* the words are joined without a space between them
unslugify_Joined(slug) ==
    IF slug = <<>> THEN slug
    ELSE LET words == SelectSeq(Split(slug, "-"), LAMBDA word : word # <<>>)
         IN Join([i \in DOMAIN words |-> capitalize(words[i])], "")

\* unslugify(slug), lines 32-38
unslugify(slug) ==
    IF slug = <<>> THEN slug
    ELSE LET words == SelectSeq(Split(slug, "-"), LAMBDA word : word # <<>>)
         IN Join([i \in DOMAIN words |-> capitalize(words[i])], " ")

\* parser.error(msg): argparse prints the message and exits, the call does
\* not return
ParserError(msg) == [exit |-> msg]
IsExit(x) == DOMAIN x = {"exit"}

\* a or b
Or(a, b) == IF Truthy(a) THEN a ELSE b

\* for user in users: ... break: the first of the positions, 0 when none
FirstUser(positions) ==
    IF positions = {} THEN 0
    ELSE CHOOSE i \in positions : \A j \in positions : i <= j

\* resolve_user_identity(name, username, config_data, parser, prefer_email),
\* lines 90-177; name is None or a text, username None or a string
resolve_user_identity(name, username, config_data, prefer_email) ==
    LET \* lines 114-115
        resolved_name ==
            IF /\ Truthy(name)
               /\ \E i \in DOMAIN Val(name) : Val(name)[i] = "-"
               /\ \A i \in DOMAIN Val(name) : Val(name)[i] # " "
            THEN Text(unslugify(Val(name)))
            ELSE name
        users == IF Truthy(config_data) THEN Val(Get(config_data, "users", EmptyList))
                 ELSE <<>>
        NameOf(user) == Val(Get(user, "name", Text(<<>>)))
        \* lines 126-130
        ExactMatch(user) == str_lower(NameOf(user)) = str_lower(Val(resolved_name))
        \* lines 134-140
        SlugMatch(user) == slugify(NameOf(user)) = slugify(Val(resolved_name))
        \* lines 160-168
        IdMatch(user) ==
            \/ Get(user, "username", None) = username
            \/ Get(user, "email", None) = username
    IN IF Truthy(resolved_name) /\ ~Truthy(username)
       THEN IF ~Truthy(config_data)
            THEN ParserError(<<"Name provided but config.json not found. Use --username instead.">>)
            ELSE LET exact == FirstUser({i \in DOMAIN users : ExactMatch(users[i])})
                     slug == FirstUser({i \in DOMAIN users : SlugMatch(users[i])})
                     found == IF exact # 0 THEN exact ELSE slug
                     canonical == IF exact # 0 THEN resolved_name
                                  ELSE Text(NameOf(users[slug]))
                 IN IF found = 0
                    THEN ParserError(<<"User '">> \o Val(resolved_name)
                                         \o <<"' not found in config.json">>)
                    ELSE LET resolved_username ==
                                 IF prefer_email
                                 THEN Or(Get(users[found], "email", None),
                                         Get(users[found], "username", None))
                                 ELSE Or(Get(users[found], "username", None),
                                         Get(users[found], "email", None))
                         IN IF ~Truthy(resolved_username)
                            THEN ParserError(<<"User '">> \o Val(canonical)
                                                 \o <<"' has no username/email in config">>)
                            ELSE Return(<<canonical, resolved_username>>)
       ELSE IF Kind(username) = "none"
       THEN ParserError(<<"Could not resolve username. Provide --username or ensure name exists in config.json">>)
       ELSE IF Truthy(username) /\ ~Truthy(resolved_name) /\ Truthy(config_data)
       THEN LET found == FirstUser({i \in DOMAIN users : IdMatch(users[i])}) IN
            IF found = 0 THEN Return(<<resolved_name, username>>)
            ELSE Return(<<Get(users[found], "name", None),
                          IF /\ prefer_email
                             /\ Truthy(Get(users[found], "email", None))
                             /\ Get(users[found], "username", None) = username
                          THEN Get(users[found], "email", None)
                          ELSE username>>)
       ELSE Return(<<resolved_name, username>>)

\* the dict period_patterns of resolve_time_range, lines 210-218
key_patterns(year) ==
    (<<1, 1, 12, 31>> :> Decimal(year)) @@
    (<<7, 1, 12, 31>> :> Decimal(year) \o <<"H", "2">>) @@
    (<<1, 1, 6, 30>> :> Decimal(year) \o <<"H", "1">>) @@
    (<<1, 1, 3, 31>> :> Decimal(year) \o <<"Q", "1">>) @@
    (<<4, 1, 6, 30>> :> Decimal(year) \o <<"Q", "2">>) @@
    (<<7, 1, 9, 30>> :> Decimal(year) \o <<"Q", "3">>) @@
    (<<10, 1, 12, 31>> :> Decimal(year) \o <<"Q", "4">>)

\* f"{resolved_start}_to_{resolved_end}"
RangeKey(start, end) == start \o <<"_to_">> \o end

\* resolve_time_range(period, start_date, end_date, config_data, parser),
\* lines 180-237; the arguments are None or a text
resolve_time_range(period, start, end) ==
    LET Finish(period_key, resolved_start, resolved_end) ==
            \* lines 226-237
            IF Kind(resolved_start) = "none" \/ Kind(resolved_end) = "none"
            THEN ParserError(<<"Could not resolve date range. Provide --period or both --start and --end">>)
            ELSE IF Kind(period_key) = "none"
            THEN ParserError(<<"Could not resolve period key">>)
            ELSE Return(<<period_key, resolved_start, resolved_end>>)
    IN IF Truthy(period) /\ ~(Truthy(start) /\ Truthy(end))
       THEN LET d == parse_period(Val(period)) IN
            IF IsError(d) THEN ParserError(d.raise)
            ELSE Finish(period, Text(d.return[1]), Text(d.return[2]))
       ELSE IF (Truthy(start) /\ Truthy(end)) /\ ~Truthy(period)
       THEN LET start_dt == strptime_ymd(Val(start))
                end_dt == strptime_ymd(Val(end))
            IN IF IsError(start_dt) THEN start_dt
               ELSE IF IsError(end_dt) THEN end_dt
               ELSE LET pattern_key ==
                            <<start_dt.month, start_dt.day, end_dt.month, end_dt.day>>
                    IN IF pattern_key \in DOMAIN key_patterns(start_dt.year)
                       THEN Finish(Text(key_patterns(start_dt.year)[pattern_key]),
                                   start, end)
                       ELSE Finish(Text(RangeKey(Val(start), Val(end))), start, end)
       ELSE Finish(period, start, end)

----------------------------------------------------------------------------
(* Helpers of the GitHub workflow: eiq/gh-analysis/workflows/analyze.py *)

\* a timestamp of the GitHub API: day, hour and UTC offset ("Z", "+00:00",
\* "+02:00") as written
Stamp(day, hour, offset) == [date |-> <<day, hour, offset>>]

\* hours per day: instants are counted in hours
HoursPerDay == 24

\* _parse_github_date: datetime.fromisoformat(date_str.replace("Z", "+00:00")),
\* lines 183-185, as the instant the aware datetime denotes
_parse_github_date(date_str) ==
    LET offset == IF Val(date_str)[3] = "Z" THEN "+00:00" ELSE Val(date_str)[3]
        hours == IF offset = "+02:00" THEN 2 ELSE 0
    IN Val(date_str)[1] * HoursPerDay + Val(date_str)[2] - hours

\* the end of the interval is left out
InInterval_EndExcluded(start_dt, at, end_dt) == start_dt <= at /\ at < end_dt

\* start_dt <= review_date <= end_dt
InInterval(start_dt, at, end_dt) == start_dt <= at /\ at <= end_dt

\* the test of lines 280-284 and 296-300 on one entry
KeepsEntry(entry, stamp_field, username, start_dt, end_dt) ==
    /\ Get(Get(entry, "user", EmptyDict), "login", None) = username
    /\ Truthy(Get(entry, stamp_field, None))
    /\ InInterval(start_dt, _parse_github_date(Get(entry, stamp_field, None)), end_dt)

\* review.get("user", {}).get("login") raises on a user that is null
AttributeError(msg) == [raise |-> msg]
LoginRaises(entries) ==
    \E i \in DOMAIN entries : GetRaises(Get(entries[i], "user", EmptyDict))

\* _filter_reviews_by_user_and_date, lines 274-303
_filter_reviews_by_user_and_date(reviews, comments, username, start_dt, end_dt) ==
    LET kept_reviews ==
            SelectSeq(reviews, LAMBDA review :
                KeepsEntry(review, "submitted_at", username, start_dt, end_dt))
        kept_comments ==
            SelectSeq(comments, LAMBDA comment :
                KeepsEntry(comment, "created_at", username, start_dt, end_dt))
    IN IF LoginRaises(reviews) \/ LoginRaises(comments)
       THEN AttributeError(<<"'NoneType' object has no attribute 'get'">>)
       ELSE Return(<<[i \in DOMAIN kept_reviews |->
                        [user |-> username,
                         body |-> Get(kept_reviews[i], "body", Str("")),
                         state |-> Get(kept_reviews[i], "state", Str("")),
                         submitted_at |-> Get(kept_reviews[i], "submitted_at", None)]],
                    [i \in DOMAIN kept_comments |->
                        [author |-> username,
                         body |-> Get(kept_comments[i], "body", Str(""))]]>>)

\* int(s): the number a string of digits denotes, a ValueError for any other
\* string of the inputs
int(s) ==
    IF s # <<>> /\ AllDigits(s) THEN Return(IntOf(s))
    ELSE ValueError(<<"invalid literal for int() with base 10">>)

\* _extract_pr_info(pr_item), lines 188-198; a URL is a string in which every
\* "/" is one element
_extract_pr_info(pr_item) ==
    LET html_url == Get(pr_item, "html_url", Text(<<>>))
        parts == Split(Val(html_url), "/")
    IN IF ~Truthy(html_url) THEN Return(None)
       ELSE IF Len(parts) < 5 THEN Return(None)
       ELSE IF IsError(int(parts[Len(parts)])) THEN int(parts[Len(parts)])
       ELSE Return(Dict([number |-> Num(int(parts[Len(parts)]).return),
                         repo |-> Text(parts[5]),
                         owner |-> Text(parts[4]),
                         html_url |-> html_url]))

\* eiq/gh-analysis/workflows/analyze.py _parse_period, lines 104-150
gh_parse_period(token) ==
    LET s == Upper(Strip(token)) IN
    IF HalfMatch(s)
    THEN LET year == IntOf(SubSeq(s, 1, 4)) IN
         IF s[6] = "1" THEN Return(<<DateOf(year, Jan01), DateOf(year, Jun30)>>)
         ELSE Return(<<DateOf(year, Jul01), DateOf(year, Dec31)>>)
    ELSE IF QuarterMatch(s)
    THEN Return(quarter_dates(IntOf(SubSeq(s, 1, 4)))[IntOf(<<s[6]>>)])
    ELSE IF YearMatch(s)
    THEN LET year == IntOf(s) IN Return(<<DateOf(year, Jan01), DateOf(year, Dec31)>>)
    ELSE InvalidPeriod(s)

\* the dates load_config falls back to, lines 412-413
DefaultDates ==
    <<<<"2", "0", "2", "5", "-">> \o Jul01, <<"2", "0", "2", "5", "-">> \o Dec31>>

\* load_config of the GitHub workflow, lines 358-421: the state it returns,
\* or the exception; w is what the config file holds
GhLoadConfig(st, w) ==
    LET Finish(config_username, config_dates) ==
            \* lines 410-414
            LET start == IF config_dates # <<>> THEN config_dates[1] ELSE DefaultDates[1]
                end == IF config_dates # <<>> THEN config_dates[2] ELSE DefaultDates[2]
                label == gh_format_analysis_period(start, end)
            IN IF IsError(label) THEN label
               ELSE Return([st EXCEPT !.username = config_username,
                                      !.start_date = start, !.end_date = end,
                                      !.analysis_period = label.return])
    IN IF w.centralized /\ Truthy(st.username)
       THEN IF ~w.config_exists
            THEN Return([st EXCEPT !.error = Text(<<"Centralized config file not found: ">>)])
            ELSE IF ~w.user_found
            THEN Return([st EXCEPT !.error =
                            Text(<<"User '", "' not found in centralized config">>)])
            ELSE IF Truthy(st.period)
            THEN LET d == gh_parse_period(Val(st.period)) IN
                 IF IsError(d) THEN Return([st EXCEPT !.error = Text(d.raise)])
                 ELSE Finish(st.username, d.return)
            ELSE Finish(st.username, w.config_dates)
       ELSE IF ~w.config_exists
            THEN Return([st EXCEPT !.error = Text(<<"Config file not found: ">>)])
            ELSE Finish(Str("testuser"), w.config_dates)

----------------------------------------------------------------------------
(* Inputs *)

\* the longest issue list
MaxIssues == 2

\* the keys of the fetched issues, by position
IssueKeys == <<"E1", "K2", "K3", "K4", "K5">>

\* either no entry for the field, or one of the values
Opt(name, vals) == {NoFields} \cup {name :> val : val \in vals}
One(name, vals) == {name :> val : val \in vals}

StatusDict(cs) == Dict([name |-> Text(cs)])
TypeDict(cs) == Dict([name |-> Text(cs)])

StatusValues ==
    {StatusDict(<<"D", "o", "n", "e">>),
     StatusDict(<<"C", "L", "O", "S", "E", "D">>),
     StatusDict(<<"r", "e", "s", "o", "l", "v", "e", "d">>),
     StatusDict(<<"I", "n", " ", "P", "r", "o", "g", "r", "e", "s", "s">>),
     StatusDict(<<"N", "o", "t", " ", "D", "o", "n", "e">>),
     StatusDict(<<"D", "o", "n", "e", " ">>)}

Story == TypeDict(<<"S", "t", "o", "r", "y">>)
Epic == TypeDict(<<"E", "p", "i", "c">>)

\* the analysis period: days 2 and 3
PeriodStart == DateStr(2)
PeriodEnd == DateStr(3)

\* a sprint entry of customfield_10020 inside the period
SprintEntry(id, name, start, end) ==
    Dict([id |-> Num(id), name |-> Str(name), state |-> Str("closed"),
          startDate |-> start, endDate |-> end])

S1 == SprintEntry(1, "Sprint A", DateTimeStr(2, 9), DateTimeStr(3, 9))
S2 == SprintEntry(2, "Sprint B", DateTimeStr(3, 9), DateTimeStr(4, 9))

\* the fields of issues that differ in status, story points and sprint
StatusFields ==
    {a @@ b @@ c @@ [issuetype |-> Story, summary |-> Str("s")] :
        a \in One("status", StatusValues),
        b \in Opt("customfield_10033", {Num(3)}),
        c \in One("customfield_10020", {None, List(<<S1>>), List(<<S1, S2>>)})}

\* the fields of issues that differ in parent, type and story points
EpicFields ==
    {a @@ b @@ c @@ [customfield_10020 |-> List(<<S1>>), summary |-> Str("s")] :
        a \in Opt("parent", {Dict([key |-> Str("E1")]), Dict([key |-> Str("E2")]),
                             Dict([id |-> Str("10001")]), Str("E2")}),
        b \in One("issuetype", {Story, Epic}),
        c \in Opt("customfield_10033", {Num(0), Num(2), Num(3)})}

\* start and end dates of a sprint entry: before, at the edges of, and after
\* the period
SprintDates ==
    {<<DateStr(1), DateTimeStr(1, 12)>>,
     <<DateStr(1), DateTimeStr(2, 12)>>,
     <<DateStr(1), DateStr(2)>>,
     <<DateTimeStr(2, 9), DateTimeStr(3, 9)>>,
     <<DateStr(3), DateStr(4)>>,
     <<DateTimeStr(3, 12), DateStr(4)>>,
     <<DateStr(4), DateStr(4)>>,
     <<None, DateStr(3)>>,
     <<DateStr(2), None>>}

\* a sprint entry that carries no dates at all
DatelessEntry == Dict([id |-> Num(2), name |-> Str("Sprint B"), state |-> Str("future")])

SprintEntries ==
    {SprintEntry(id, name, d[1], d[2]) :
        id \in {1, 2}, name \in {"Sprint A", "Sprint B"}, d \in SprintDates}
        \cup {DatelessEntry}

\* the fields of issues that differ in the sprint they reference
SprintFields ==
    {a @@ [status |-> StatusDict(<<"D", "o", "n", "e">>), issuetype |-> Story,
           customfield_10033 |-> Num(1), summary |-> Str("s")] :
        a \in One("customfield_10020", {None} \cup {List(<<e>>) : e \in SprintEntries})}

\* entries that give sprint 1 other names, states and dates, and a second
\* sprint
ConflictEntries ==
    {S1,
     SprintEntry(1, "Sprint B", DateStr(4), DateStr(4)),
     Dict([id |-> Num(1), name |-> Str("Sprint C"), state |-> Str("active"),
           startDate |-> DateTimeStr(2, 9), endDate |-> DateTimeStr(3, 9)]),
     SprintEntry(2, "Sprint B", DateTimeStr(2, 9), DateTimeStr(3, 9))}

\* the fields of issues whose sprint field holds one or two of these entries
ConflictFields ==
    {a @@ [status |-> StatusDict(<<"D", "o", "n", "e">>), issuetype |-> Story,
           customfield_10033 |-> Num(1), summary |-> Str("s")] :
        a \in One("customfield_10020",
                  {None} \cup {List(<<e>>) : e \in ConflictEntries}
                         \cup {List(<<e, f>>) : e, f \in ConflictEntries})}

\* a sprint that ended before the period
S0 == SprintEntry(3, "Sprint Z", DateStr(0), DateTimeStr(1, 9))

\* time spent and original estimate: absent, null or a number of seconds
TimePairs ==
    {NoFields,
     [timespent |-> None, timeoriginalestimate |-> None],
     [timespent |-> Num(2)],
     [timeoriginalestimate |-> Num(5)],
     [timespent |-> Num(2), timeoriginalestimate |-> Num(5)],
     [timespent |-> None, timeoriginalestimate |-> Num(5)]}

\* the fields of issues that differ in logged time, parent and sprint
TimeFields ==
    {a @@ b @@ c @@ [status |-> StatusDict(<<"D", "o", "n", "e">>),
                     issuetype |-> Story, summary |-> Str("s")] :
        a \in TimePairs,
        b \in Opt("parent", {Dict([key |-> Str("E1")])}),
        c \in Opt("customfield_10020", {List(<<S0>>), List(<<S1>>)})}

\* a fully populated issue, and the same with one optional field absent or
\* null, with none of them, and with all of them null
FullFields ==
    [status |-> StatusDict(<<"D", "o", "n", "e">>), summary |-> Str("s"),
     issuetype |-> Story, customfield_10033 |-> Num(3), timespent |-> Num(2),
     timeoriginalestimate |-> Num(5), parent |-> Dict([key |-> Str("E1")]),
     customfield_10020 |-> List(<<S1>>)]

OptionalFields == DOMAIN FullFields

SparseFields ==
    {FullFields, NoFields, [f \in OptionalFields |-> None]}
        \cup {[f \in OptionalFields \ {g} |-> FullFields[f]] : g \in OptionalFields}
        \cup {[FullFields EXCEPT ![g] = None] : g \in OptionalFields}

\* the years of the period tokens, one of them below 1000
Years == {<<"2", "0", "2", "5">>, <<"2", "0", "2", "4">>, <<"0", "9", "9", "9">>}

\* what follows the year in an accepted token, and in a rejected one
AcceptedSuffixes ==
    {<<>>, <<"H", "1">>, <<"H", "2">>,
     <<"Q", "1">>, <<"Q", "2">>, <<"Q", "3">>, <<"Q", "4">>}
RejectedSuffixes ==
    {<<"H", "3">>, <<"Q", "0">>, <<"Q", "5">>, <<"H">>, <<"H", "1", "2">>, <<"-", "H", "1">>}

\* tokens that are no year followed by a suffix
OtherTokens ==
    {<<>>, <<"2", "5", "H", "2">>, <<"H", "1">>, <<"2", "0", "2", "5", "5">>,
     <<"2", "0", "2", "5", " ", "H", "1">>,
     <<"i", "n", "v", "a", "l", "i", "d">>}

\* the whitespace around a token as typed
Paddings == {<<<<>>, <<>>>>, <<<<" ">>, <<" ">>>>, <<<<"\t", " ">>, <<"\n">>>>}

\* str.lower() of a token, to type it in lower case
LowerText(s) == [i \in DOMAIN s |-> LowerChar(s[i])]

PeriodTokens ==
    LET cores == {y \o s : y \in Years, s \in AcceptedSuffixes \cup RejectedSuffixes}
                     \cup OtherTokens
    IN {pad[1] \o typed \o pad[2] :
            typed \in cores \cup {LowerText(c) : c \in cores}, pad \in Paddings}

\* dates handed to the label formatter directly
StartDates ==
    {<<"2", "0", "2", "5", "-">> \o Jan01, <<"2", "0", "2", "5", "-">> \o Apr01,
     <<"2", "0", "2", "5", "-">> \o Jul01, <<"2", "0", "2", "5", "-">> \o Oct01,
     <<"2", "0", "2", "5", "-", "0", "3", "-", "1", "5">>,
     <<"2", "0", "2", "4", "-">> \o Jan01, <<"2", "0", "2", "4", "-">> \o Jul01,
     <<"2", "0", "2", "4", "-", "1", "2", "-", "0", "1">>}
EndDates ==
    {<<"2", "0", "2", "5", "-">> \o Mar31, <<"2", "0", "2", "5", "-">> \o Jun30,
     <<"2", "0", "2", "5", "-">> \o Sep30, <<"2", "0", "2", "5", "-">> \o Dec31,
     <<"2", "0", "2", "5", "-", "0", "9", "-", "2", "0">>,
     <<"2", "0", "2", "5", "-", "0", "2", "-", "2", "8">>,
     <<"2", "0", "2", "4", "-">> \o Dec31, <<"2", "0", "2", "6", "-">> \o Dec31}
DatePairs == StartDates \X EndDates

\* the --period, --start and --end a command line carries
RangePeriods ==
    {None, Text(<<>>), Text(<<"2", "0", "2", "5", "H", "2">>),
     Text(<<"2", "0", "2", "5", "H", "3">>)}
RangeStarts ==
    {None, Text(<<"0", "9", "9", "9", "-">> \o Jan01),
     Text(<<"2", "0", "2", "5", "-", "1", "3", "-", "0", "1">>)}
        \cup {Text(d) : d \in StartDates}
RangeEnds ==
    {None, Text(<<"0", "9", "9", "9", "-">> \o Dec31)} \cup {Text(d) : d \in EndDates}

\* the longest text handed to slugify
MaxText == 3

\* the characters of the texts: letters of both cases, a digit, a hyphen, an
\* underscore, a space, punctuation and a letter outside ASCII
TextChars == {"a", "B", "1", "-", "_", " ", ".", "É"}

Texts == UNION {[1..n -> TextChars] : n \in 0..MaxText}

\* names as typed on the command line: plain, in another letter case,
\* slugified, with other separators, unknown, empty
TypedNames ==
    {None, Text(<<>>), Text(<<"A", " ", "B">>), Text(<<"a", " ", "b">>),
     Text(<<"a", "-", "b">>), Text(<<"A", "_", "B">>), Text(<<"a", "b">>),
     Text(<<"-">>)}

\* the users a config.json lists
ConfigUsers ==
    {Dict(a @@ b @@ c) :
        a \in One("name", {Text(<<"A", " ", "B">>), Text(<<"a", ".", "B">>)}),
        b \in Opt("username", {Str("ab")}),
        c \in Opt("email", {Str("ab@example.com"), Str("")})}

\* no config.json, one without users, one with one or two users
Configs ==
    {None, EmptyDict}
        \cup {Dict([users |-> List(<<u>>)]) : u \in ConfigUsers}
        \cup {Dict([users |-> List(<<u, v>>)]) : u, v \in ConfigUsers}

\* the interval of the GitHub analysis: from day 1, 00:00 to day 2, 23:00
IntervalStart == 1 * HoursPerDay
IntervalEnd == 2 * HoursPerDay + 23

\* the most reviews, and the most comments, of one pull request
MaxEntries == 2

GhUser(login) == Dict([login |-> Str(login)])

\* reviews: at both ends of the interval, around it, by another user, without
\* a user, without a timestamp
ReviewEntries ==
    {Dict([user |-> GhUser("alice"), body |-> Str("r1"), state |-> Str("APPROVED"),
           submitted_at |-> Stamp(1, 0, "Z")]),
     Dict([user |-> GhUser("alice"), body |-> Str("r2"), state |-> Str("COMMENTED"),
           submitted_at |-> Stamp(3, 1, "+02:00")]),
     Dict([user |-> GhUser("alice"), body |-> Str("r3"), submitted_at |-> Stamp(0, 23, "Z")]),
     Dict([user |-> GhUser("alice"), body |-> Str("r4"),
           submitted_at |-> Stamp(3, 0, "+00:00")]),
     Dict([user |-> GhUser("alice"), submitted_at |-> Stamp(2, 0, "Z")]),
     Dict([user |-> GhUser("bob"), body |-> Str("r6"), submitted_at |-> Stamp(2, 0, "Z")]),
     Dict([user |-> GhUser("alice"), body |-> Str("r7")]),
     Dict([user |-> GhUser("alice"), body |-> Str("r8"), submitted_at |-> None]),
     Dict([body |-> Str("r9"), submitted_at |-> Stamp(2, 0, "Z")])}

CommentEntries ==
    {Dict([user |-> GhUser("alice"), body |-> Str("c1"), created_at |-> Stamp(1, 0, "Z")]),
     Dict([user |-> GhUser("alice"), body |-> Str("c2"),
           created_at |-> Stamp(2, 23, "+00:00")]),
     Dict([user |-> GhUser("alice"), body |-> Str("c3"), created_at |-> Stamp(3, 0, "Z")]),
     Dict([user |-> GhUser("bob"), body |-> Str("c4"), created_at |-> Stamp(2, 0, "Z")]),
     Dict([user |-> GhUser("alice"), body |-> Str("c5"), created_at |-> Str("")])}

\* sequences of at most MaxEntries elements of S
UpTo(S) == UNION {[1..n -> S] : n \in 0..MaxEntries}

\* the pieces of an html_url after "https://github.com/"
UrlOwners == {<<"o1">>, <<"o2">>}
UrlRepos == {<<"r1">>, <<"r2">>}
UrlKinds == {<<"pull">>, <<"issues">>, <<"pulls">>}
UrlNumbers == {<<"1">>, <<"1", "2">>, <<"0", "0", "7">>, <<"a", "b", "c">>, <<>>}
UrlTails == {<<>>, <<"/", "files">>, <<"/">>}

GitHub == <<"https:", "/", "/", "github.com">>

\* the items handed to _extract_pr_info
PrItems ==
    {EmptyDict, Dict([html_url |-> None]), Dict([html_url |-> Text(<<>>)]),
     Dict([html_url |-> Text(GitHub \o <<"/", "invalid">>)]),
     Dict([html_url |-> Text(GitHub \o <<"/", "o1", "/", "r1">>)]),
     Dict([html_url |-> Text(<<"http:", "/", "/", "example.com", "/", "o1", "/", "r1",
                               "/", "pull", "/", "7">>)])}
        \cup {Dict([html_url |->
                       Text(GitHub \o <<"/">> \o o \o <<"/">> \o r \o <<"/">> \o k
                                \o <<"/">> \o n \o t)]) :
                 o \in UrlOwners, r \in UrlRepos, k \in UrlKinds, n \in UrlNumbers,
                 t \in UrlTails}

MkIssue(i, fields) == Dict([key |-> Str(IssueKeys[i]), fields |-> Dict(fields)])

\* what _issue(epic_key) answers: E1 has a summary, E2 cannot be fetched, the
\* others come back without fields
JiraServer ==
    [key \in {Str(IssueKeys[i]) : i \in DOMAIN IssueKeys} \cup {Str("E2")} |->
        IF key = Str("E1") THEN Dict([fields |-> Dict([summary |-> Str("Epic One")])])
        ELSE IF key = Str("E2") THEN Raised
        ELSE EmptyDict]

----------------------------------------------------------------------------
(* fetch_jira_data as a state machine, from the fetched issue list on.  The *)
(* worklog fetch of lines 819-866 fills state["worklogs"] only and is left *)
(* out: no later step of the aggregation reads it.                         *)

\* no call of the period resolver or of the label formatter yet
PeriodIdle ==
    /\ period_str = <<>>
    /\ parsed = None
    /\ dates = <<>>
    /\ labels = None

\* run() has not been called
RunIdle ==
    /\ state = None
    /\ world = None
    /\ effects = <<>>

\* no helper function has been called
CallIdle ==
    /\ args = None
    /\ result = None
    /\ session = None

\* an issue list of at most MaxIssues issues with the fields of a family
InitWith(family) ==
    /\ PeriodIdle
    /\ RunIdle
    /\ CallIdle
    /\ \E n \in 0..MaxIssues : \E f \in [1..n -> family] :
           issues = [i \in 1..n |-> MkIssue(i, f[i])]
    /\ start_date = PeriodStart
    /\ end_date = PeriodEnd
    /\ jira = JiraServer
    /\ pc = "extract"
    /\ sprint_map = <<>>
    /\ issue_sprint_map = <<>>
    /\ filtered_sprints = <<>>
    /\ epic_names = <<>>
    /\ epics = <<>>
    /\ sprint_metrics = <<>>

Init == InitWith(StatusFields)
InitEpics == InitWith(EpicFields)
InitSprints == InitWith(SprintFields)
InitTimes == InitWith(TimeFields)
InitSparse == InitWith(SparseFields)
InitConflicts == InitWith(ConflictFields)

\* an exception leaves fetch_jira_data before lines 1086-1091 store anything:
\* the state keeps the empty collections run() put there
Abort ==
    /\ pc' = "raised"
    /\ sprint_map' = <<>>
    /\ issue_sprint_map' = <<>>
    /\ filtered_sprints' = <<>>
    /\ epic_names' = <<>>
    /\ epics' = <<>>
    /\ sprint_metrics' = <<>>

\* lines 780-805
ExtractSprints ==
    /\ pc = "extract"
    /\ IF ExtractRaises(issues) THEN Abort
       ELSE /\ sprint_map' = ExtractedSprints(issues).sprint_map
            /\ issue_sprint_map' = ExtractedSprints(issues).issue_sprint_map
            /\ pc' = "filter"
            /\ UNCHANGED <<filtered_sprints, epic_names, epics, sprint_metrics>>
    /\ UNCHANGED <<issues, start_date, end_date, jira>>
    /\ UNCHANGED period_vars
    /\ UNCHANGED run_vars
    /\ UNCHANGED call_vars

\* lines 807-817
FilterSprints ==
    /\ pc = "filter"
    /\ filtered_sprints' = FilteredSprints(sprint_map, start_date, end_date)
    /\ pc' = "epics"
    /\ UNCHANGED <<issues, start_date, end_date, jira, sprint_map,
                   issue_sprint_map, epic_names, epics, sprint_metrics>>
    /\ UNCHANGED period_vars
    /\ UNCHANGED run_vars
    /\ UNCHANGED call_vars

\* lines 868-950
OrganizeIssuesByEpic ==
    /\ pc = "epics"
    /\ IF OrganizeRaises(issues) THEN Abort
       ELSE /\ epic_names' = FetchedEpicNames(jira, issues)
            /\ epics' = OrganizeEpics(issues, FetchedEpicNames(jira, issues), <<>>)
            /\ pc' = "metrics"
            /\ UNCHANGED <<sprint_map, issue_sprint_map, filtered_sprints,
                           sprint_metrics>>
    /\ UNCHANGED <<issues, start_date, end_date, jira>>
    /\ UNCHANGED period_vars
    /\ UNCHANGED run_vars
    /\ UNCHANGED call_vars

\* lines 952-1091
CalculateSprintMetrics ==
    /\ pc = "metrics"
    /\ IF MetricsRaises(filtered_sprints, issues, issue_sprint_map) THEN Abort
       ELSE /\ sprint_metrics' =
                   SprintMetrics(filtered_sprints, issues, issue_sprint_map, <<>>)
            /\ pc' = "done"
            /\ UNCHANGED <<sprint_map, issue_sprint_map, filtered_sprints,
                           epic_names, epics>>
    /\ UNCHANGED <<issues, start_date, end_date, jira>>
    /\ UNCHANGED period_vars
    /\ UNCHANGED run_vars
    /\ UNCHANGED call_vars

Next ==
    \/ ExtractSprints
    \/ FilterSprints
    \/ OrganizeIssuesByEpic
    \/ CalculateSprintMetrics

Spec == Init /\ [][Next]_vars
SpecEpics == InitEpics /\ [][Next]_vars
SpecSprints == InitSprints /\ [][Next]_vars
SpecTimes == InitTimes /\ [][Next]_vars
SpecSparse == InitSparse /\ [][Next]_vars
SpecConflicts == InitConflicts /\ [][Next]_vars


----------------------------------------------------------------------------
(* The period resolver and the label formatter, applied to a token and to  *)
(* the dates the resolver returns, or to a pair of dates given directly.   *)

AggregationIdle ==
    /\ issues = <<>>
    /\ start_date = PeriodStart
    /\ end_date = PeriodEnd
    /\ jira = JiraServer
    /\ sprint_map = <<>>
    /\ issue_sprint_map = <<>>
    /\ filtered_sprints = <<>>
    /\ epic_names = <<>>
    /\ epics = <<>>
    /\ sprint_metrics = <<>>

InitPeriod ==
    /\ AggregationIdle
    /\ RunIdle
    /\ CallIdle
    /\ parsed = None
    /\ labels = None
    /\ \/ period_str \in PeriodTokens /\ dates = <<>> /\ pc = "parse"
       \/ period_str = <<>> /\ dates \in DatePairs /\ pc = "format"

\* parse_period(period_str) and _parse_period(period_str); the dates go on to
\* the formatter as in load_config, lines 450-454 and 507-509
ParsePeriod ==
    /\ pc = "parse"
    /\ parsed' = [cli |-> parse_period(period_str), jira |-> _parse_period(period_str)]
    /\ IF IsError(_parse_period(period_str))
       THEN pc' = "rejected" /\ dates' = dates
       ELSE pc' = "format" /\ dates' = _parse_period(period_str).return
    /\ UNCHANGED <<period_str, labels>>
    /\ UNCHANGED aggregation_vars
    /\ UNCHANGED run_vars
    /\ UNCHANGED call_vars

\* _format_analysis_period(start_date, end_date) of both workflows
FormatPeriod ==
    /\ pc = "format"
    /\ labels' = [jira |-> _format_analysis_period(dates[1], dates[2]),
                  gh |-> gh_format_analysis_period(dates[1], dates[2])]
    /\ pc' = "labelled"
    /\ UNCHANGED <<period_str, parsed, dates>>
    /\ UNCHANGED aggregation_vars
    /\ UNCHANGED run_vars
    /\ UNCHANGED call_vars

NextPeriod ==
    \/ ParsePeriod
    \/ FormatPeriod

SpecPeriod == InitPeriod /\ [][NextPeriod]_vars


----------------------------------------------------------------------------
(* run(): the workflow load_config -> fetch_jira -> analyze -> generate ->  *)
(* save of jira-analysis/workflows/analyze.py, lines 402-510 and 1667-1754. *)
(* The fetch node is kept to the requests it makes; its aggregation is the  *)
(* machine above.                                                           *)

\* the period tokens run() is called with
RunPeriods ==
    {None, Text(<<>>),
     Text(<<"2", "0", "2", "5", "H", "2">>),
     Text(<<" ", "2", "0", "2", "5", "q", "1", "\n">>),
     Text(<<"0", "9", "9", "9">>),
     Text(<<"2", "0", "2", "5", "H", "3">>),
     Text(<<"2", "5", "H", "2">>),
     Text(<<" ", "i", "n", "v", "a", "l", "i", "d">>)}

\* start_date and end_date as a config file carries them
ConfiguredDates ==
    <<<<"2", "0", "2", "5", "-">> \o Jul01, <<"2", "0", "2", "5", "-">> \o Dec31>>

\* config_path is a centralized config.json, a username is passed, the config
\* file exists, lists the user, carries dates; JIRA_URL and the JIRA
\* credentials are set; the search and the LLM call succeed
Worlds ==
    [centralized : BOOLEAN, username : BOOLEAN, config_exists : BOOLEAN,
     user_found : BOOLEAN, config_dates : {<<>>, ConfiguredDates},
     jira_url : BOOLEAN, credentials : BOOLEAN, search_ok : BOOLEAN,
     llm_ok : BOOLEAN]

\* initial_state of run(), lines 1720-1747
initial_state(period) ==
    [period |-> period, error |-> None, start_date |-> <<>>, end_date |-> <<>>,
     analysis_period |-> <<>>, sprints |-> <<>>, issues |-> <<>>, epics |-> <<>>,
     sprint_metrics |-> <<>>, analysis_results |-> <<>>, markdown_report |-> <<>>]

InitRun ==
    /\ AggregationIdle
    /\ PeriodIdle
    /\ RunIdle
    /\ CallIdle
    /\ pc = "run"

\* run(config_path, ..., username, period, ...) is called, lines 1689-1749: it
\* builds initial_state and invokes the graph at its entry point
run ==
    /\ pc = "run"
    /\ world' \in Worlds
    /\ \E period \in RunPeriods : state' = initial_state(period)
    /\ pc' = "load_config"
    /\ UNCHANGED effects
    /\ UNCHANGED <<aggregation_vars, period_vars, call_vars>>

\* state["error"] = msg; return state
Fail(st, msg) == Return([st EXCEPT !.error = Text(msg)])

\* load_config, lines 402-510: the state it returns, or the exception
LoadConfig(st, w) ==
    LET Finish(config_dates) ==
            \* lines 506-508: state.get("start_date", ...) finds the "" of run()
            LET start == IF config_dates # <<>> THEN config_dates[1] ELSE st.start_date
                end == IF config_dates # <<>> THEN config_dates[2] ELSE st.end_date
                label == _format_analysis_period(start, end)
            IN IF IsError(label) THEN label
               ELSE Return([st EXCEPT !.start_date = start, !.end_date = end,
                                      !.analysis_period = label.return])
    IN IF w.centralized /\ w.username
       THEN IF ~w.config_exists
            THEN Fail(st, <<"Centralized config file not found">>)
            ELSE IF ~w.user_found
            THEN Fail(st, <<"User not found in centralized config">>)
            ELSE IF ~w.jira_url
            THEN Fail(st, <<"JIRA_URL environment variable required.">>)
            ELSE IF Truthy(st.period)
            THEN LET d == _parse_period(Val(st.period)) IN
                 IF IsError(d) THEN Fail(st, d.raise) ELSE Finish(d.return)
            ELSE Finish(w.config_dates)
       ELSE IF ~w.config_exists
            THEN Fail(st, <<"Config file not found">>)
            ELSE IF ~w.jira_url
            THEN Fail(st, <<"JIRA_URL environment variable required.">>)
            ELSE Finish(w.config_dates)

\* node load_config; an exception ends app.invoke and run()
load_config ==
    /\ pc = "load_config"
    /\ IF IsError(LoadConfig(state, world))
       THEN pc' = "raised" /\ state' = state
       ELSE pc' = "fetch_jira" /\ state' = LoadConfig(state, world).return
    /\ UNCHANGED <<world, effects>>
    /\ UNCHANGED <<aggregation_vars, period_vars, call_vars>>

\* the fetch node runs although an error is recorded
fetch_jira_data_Unguarded ==
    /\ pc = "fetch_jira"
    /\ effects' = effects \o <<"search", "fetch", "aggregate">>
    /\ pc' = "analyze"
    /\ UNCHANGED <<state, world>>
    /\ UNCHANGED <<aggregation_vars, period_vars, call_vars>>

\* lines 1086-1091: what a completed fetch stores in the state
Fetched(st) ==
    [st EXCEPT !.sprints = <<"sprint">>, !.issues = <<"issue">>,
               !.epics = <<"epic">>, !.sprint_metrics = <<"metrics">>]

\* node fetch_jira, lines 602-1103
fetch_jira_data ==
    /\ pc = "fetch_jira"
    /\ IF Truthy(state.error)
       THEN UNCHANGED <<state, effects>>
       ELSE IF ~world.credentials
       THEN /\ state' = [state EXCEPT !.error = Text(<<"JIRA token required.">>)]
            /\ effects' = effects
       ELSE IF ~world.search_ok
       THEN /\ state' = [state EXCEPT !.error = Text(<<"JIRA search error: ">>)]
            /\ effects' = effects \o <<"search">>
       ELSE /\ state' = Fetched(state)
            /\ effects' = effects \o <<"search", "fetch", "aggregate">>
    /\ pc' = "analyze"
    /\ UNCHANGED world
    /\ UNCHANGED <<aggregation_vars, period_vars, call_vars>>

\* node analyze, lines 1106-1223
analyze_with_vertexai ==
    /\ pc = "analyze"
    /\ IF Truthy(state.error)
       THEN UNCHANGED <<state, effects>>
       ELSE /\ effects' = effects \o <<"llm">>
            /\ state' = IF world.llm_ok
                        THEN [state EXCEPT !.analysis_results = <<"markdown">>]
                        ELSE [state EXCEPT
                                 !.error = Text(<<"Vertex AI analysis failed: ">>)]
    /\ pc' = "generate"
    /\ UNCHANGED world
    /\ UNCHANGED <<aggregation_vars, period_vars, call_vars>>

\* the report is generated although an error is recorded
generate_report_Unguarded ==
    /\ pc = "generate"
    /\ effects' = effects \o <<"report">>
    /\ state' = [state EXCEPT !.markdown_report =
                     <<"# JIRA Analysis: ">> \o state.analysis_results]
    /\ pc' = "save"
    /\ UNCHANGED world
    /\ UNCHANGED <<aggregation_vars, period_vars, call_vars>>

\* node generate, lines 1226-1619
generate_report ==
    /\ pc = "generate"
    /\ IF Truthy(state.error)
       THEN UNCHANGED <<state, effects>>
       ELSE /\ effects' = effects \o <<"report">>
            /\ state' = [state EXCEPT !.markdown_report =
                             <<"# JIRA Analysis: ">> \o state.analysis_results]
    /\ pc' = "save"
    /\ UNCHANGED world
    /\ UNCHANGED <<aggregation_vars, period_vars, call_vars>>

\* node save, lines 1622-1664
save_report ==
    /\ pc = "save"
    /\ IF Truthy(state.error)
       THEN UNCHANGED effects
       ELSE effects' = effects \o <<"write">>
    /\ pc' = "end"
    /\ UNCHANGED <<state, world>>
    /\ UNCHANGED <<aggregation_vars, period_vars, call_vars>>

\* raise RuntimeError(msg), line 1752
RuntimeError(msg) == [raise |-> msg]

\* lines 1749-1754: raise RuntimeError(result["error"]) or return result
run_result ==
    /\ pc = "end"
    /\ IF Truthy(state.error)
       THEN pc' = "raised" /\ result' = RuntimeError(Val(state.error))
       ELSE pc' = "returned" /\ result' = Return(state)
    /\ UNCHANGED <<state, world, effects, args, session>>
    /\ UNCHANGED <<aggregation_vars, period_vars>>

NextRun ==
    \/ run
    \/ load_config
    \/ fetch_jira_data
    \/ analyze_with_vertexai
    \/ generate_report
    \/ save_report
    \/ run_result

SpecRun == InitRun /\ [][NextRun]_vars



----------------------------------------------------------------------------
(* resolve_time_range called once on the arguments of a command line *)

InitRange ==
    /\ AggregationIdle
    /\ PeriodIdle
    /\ RunIdle
    /\ args \in [period : RangePeriods, start_date : RangeStarts, end_date : RangeEnds]
    /\ result = None
    /\ session = None
    /\ pc = "resolve_time_range"

ResolveTimeRange ==
    /\ pc = "resolve_time_range"
    /\ result' = resolve_time_range(args.period, args.start_date, args.end_date)
    /\ pc' = "called"
    /\ UNCHANGED <<args, session>>
    /\ UNCHANGED <<aggregation_vars, period_vars, run_vars>>

NextRange == ResolveTimeRange

SpecRange == InitRange /\ [][NextRange]_vars

----------------------------------------------------------------------------
(* slugify applied to a text, unslugify to the slug, slugify to the name *)

InitSlug ==
    /\ AggregationIdle
    /\ PeriodIdle
    /\ RunIdle
    /\ \E text \in Texts : args = [text |-> text]
    /\ result = None
    /\ session = None
    /\ pc = "slugify"

Slugify ==
    /\ pc = "slugify"
    /\ result' = [slug |-> slugify(args.text)]
    /\ pc' = "unslugify"
    /\ UNCHANGED <<args, session>>
    /\ UNCHANGED <<aggregation_vars, period_vars, run_vars>>

Unslugify ==
    /\ pc = "unslugify"
    /\ result' = [slug |-> result.slug, name |-> unslugify(result.slug)]
    /\ pc' = "reslugify"
    /\ UNCHANGED <<args, session>>
    /\ UNCHANGED <<aggregation_vars, period_vars, run_vars>>

Reslugify ==
    /\ pc = "reslugify"
    /\ result' = [slug |-> result.slug, name |-> result.name,
                  again |-> slugify(result.name)]
    /\ pc' = "called"
    /\ UNCHANGED <<args, session>>
    /\ UNCHANGED <<aggregation_vars, period_vars, run_vars>>

NextSlug ==
    \/ Slugify
    \/ Unslugify
    \/ Reslugify

SpecSlug == InitSlug /\ [][NextSlug]_vars

----------------------------------------------------------------------------
(* resolve_user_identity called once on the arguments of a command line *)

InitIdentity ==
    /\ AggregationIdle
    /\ PeriodIdle
    /\ RunIdle
    /\ args \in [name : TypedNames, username : {None, Str("ab")},
                  config_data : Configs, prefer_email : BOOLEAN]
    /\ result = None
    /\ session = None
    /\ pc = "resolve_user_identity"

ResolveUserIdentity ==
    /\ pc = "resolve_user_identity"
    /\ result' = resolve_user_identity(args.name, args.username, args.config_data,
                                       args.prefer_email)
    /\ pc' = "called"
    /\ UNCHANGED <<args, session>>
    /\ UNCHANGED <<aggregation_vars, period_vars, run_vars>>

NextIdentity == ResolveUserIdentity

SpecIdentity == InitIdentity /\ [][NextIdentity]_vars

----------------------------------------------------------------------------
(* The helpers of the GitHub workflow, each called once *)

InitFilter ==
    /\ AggregationIdle
    /\ PeriodIdle
    /\ RunIdle
    /\ \E reviews \in UpTo(ReviewEntries) : \E comments \in UpTo(CommentEntries) :
           args = [reviews |-> reviews, comments |-> comments,
                   username |-> Str("alice"),
                   start_dt |-> IntervalStart, end_dt |-> IntervalEnd]
    /\ result = None
    /\ session = None
    /\ pc = "_filter_reviews_by_user_and_date"

FilterReviewsByUserAndDate ==
    /\ pc = "_filter_reviews_by_user_and_date"
    /\ result' = _filter_reviews_by_user_and_date(
                     args.reviews, args.comments, args.username,
                     args.start_dt, args.end_dt)
    /\ pc' = "called"
    /\ UNCHANGED <<args, session>>
    /\ UNCHANGED <<aggregation_vars, period_vars, run_vars>>

NextFilter == FilterReviewsByUserAndDate

SpecFilter == InitFilter /\ [][NextFilter]_vars

InitPrInfo ==
    /\ AggregationIdle
    /\ PeriodIdle
    /\ RunIdle
    /\ \E pr_item \in PrItems : args = [pr_item |-> pr_item]
    /\ result = None
    /\ session = None
    /\ pc = "_extract_pr_info"

ExtractPrInfo ==
    /\ pc = "_extract_pr_info"
    /\ result' = _extract_pr_info(args.pr_item)
    /\ pc' = "called"
    /\ UNCHANGED <<args, session>>
    /\ UNCHANGED <<aggregation_vars, period_vars, run_vars>>

NextPrInfo == ExtractPrInfo

SpecPrInfo == InitPrInfo /\ [][NextPrInfo]_vars

----------------------------------------------------------------------------
(* load_config of the GitHub workflow, called once *)

\* the period keys a centralized config defines under "periods"
H2_2025 == <<"2", "0", "2", "5", "H", "2">>
H1_2026 == <<"2", "0", "2", "6", "H", "1">>

\* state["period"] as the command line passes it to the GitHub workflow
GhPeriods ==
    {None, Text(<<>>), Text(H2_2025), Text(H1_2026),
     Text(<<"2", "0", "2", "5", "Q", "3">>), Text(<<"2", "0", "2", "5", "H", "3">>),
     Text(<<"2", "0", "2", "6">>)}

\* what load_config of the GitHub workflow finds: config_path names a
\* config.json, the file exists, lists the user, defines periods, carries
\* dates for the user
GhWorlds ==
    [centralized : BOOLEAN, config_exists : BOOLEAN, user_found : BOOLEAN,
     periods : {{}, {H2_2025}, {H2_2025, H1_2026}},
     config_dates : {<<>>, ConfiguredDates}]

\* the state a caller hands to load_config
GhStates ==
    {[period |-> period, username |-> username, error |-> None,
      start_date |-> <<>>, end_date |-> <<>>, analysis_period |-> <<>>] :
        period \in GhPeriods, username \in {Str(""), Str("testuser")}}

InitGhConfig ==
    /\ AggregationIdle
    /\ PeriodIdle
    /\ state \in GhStates
    /\ args = [state |-> state]
    /\ result = None
    /\ session = None
    /\ world \in GhWorlds
    /\ effects = <<>>
    /\ pc = "gh_load_config"

gh_load_config ==
    /\ pc = "gh_load_config"
    /\ IF IsError(GhLoadConfig(state, world))
       THEN pc' = "raised" /\ state' = state
       ELSE pc' = "loaded" /\ state' = GhLoadConfig(state, world).return
    /\ UNCHANGED <<world, effects>>
    /\ UNCHANGED <<aggregation_vars, period_vars, call_vars>>

NextGhConfig == gh_load_config

SpecGhConfig == InitGhConfig /\ [][NextGhConfig]_vars

----------------------------------------------------------------------------
(* JiraSession._search, analyze.py lines 208-281, called once *)

max(a, b) == IF a >= b THEN a ELSE b
min(a, b) == IF a <= b THEN a ELSE b

\* the longest script of server answers
MaxPages == 2

\* the most issues one page carries
MaxPerPage == 2

\* True and False are the ints 1 and 0
True == Num(1)
False == Num(0)

\* the JSON bodies of the 200 answers: "issues" holds count issues (filled in
\* per position by ServerScripts), "isLast" and "nextPageToken" may be missing
PageShapes ==
    [count : 0..MaxPerPage, isLast : {"missing", "true", "false"},
     nextPageToken : {"missing", "empty", "token"}]

\* the body of the page of a shape served at position i of a script
PageBody(i, shape) ==
    LET batch_issues == [j \in 1..shape.count |-> <<i, j>>]
        last == IF shape.isLast = "true" THEN True ELSE False
        token == IF shape.nextPageToken = "empty" THEN Str("") ELSE Str("token")
    IN CASE shape.isLast = "missing" /\ shape.nextPageToken = "missing" ->
                Dict([issues |-> List(batch_issues)])
         [] shape.isLast = "missing" /\ shape.nextPageToken # "missing" ->
                Dict([issues |-> List(batch_issues), nextPageToken |-> token])
         [] shape.isLast # "missing" /\ shape.nextPageToken = "missing" ->
                Dict([issues |-> List(batch_issues), isLast |-> last])
         [] OTHER ->
                Dict([issues |-> List(batch_issues), isLast |-> last, nextPageToken |-> token])

\* what the server answers to one POST: a page, an HTTP error, or a 200 answer
\* that carries errorMessages
Answers(i) ==
    {[status_code |-> 200, json |-> PageBody(i, shape)] : shape \in PageShapes}
        \cup {[status_code |-> 400, json |-> Dict([errorMessages |-> List(<<"Unbounded JQL queries">>)])],
              [status_code |-> 200, json |-> Dict([errorMessages |-> List(<<"bad JQL">>)])]}

\* the answers of a server, in the order of the requests; a server asked for
\* more answers than its script holds repeats the last one
ServerScripts ==
    UNION {{script \in [1..n -> UNION {Answers(i) : i \in 1..n}] :
                \A i \in 1..n : script[i] \in Answers(i)} : n \in 1..MaxPages}

\* max_results as callers pass it
MaxResults == {-1, 0, 1, 2, 3, 5}

InitSearch ==
    /\ AggregationIdle
    /\ PeriodIdle
    /\ RunIdle
    /\ args \in [pages : ServerScripts, max_results : MaxResults]
    /\ result = None
    /\ session = None
    /\ pc = "_search"

\* line 221
desired_total == max(1, args.max_results)

\* lines 220-231, up to the loop
_search ==
    /\ pc = "_search"
    /\ session' = [issues |-> <<>>, next_page_token |-> None,
                   payload |-> [maxResults |-> min(5000, desired_total)], posts |-> 0]
    /\ pc' = "while"
    /\ UNCHANGED <<args, result>>
    /\ UNCHANGED <<aggregation_vars, period_vars, run_vars>>

\* lines 235-239: the payload of the next request
Payload(sess) ==
    IF Truthy(sess.next_page_token)
    THEN [maxResults |-> sess.payload.maxResults, nextPageToken |-> sess.next_page_token]
    ELSE [maxResults |-> sess.payload.maxResults]

\* the answer to the next request
Response(sess) == args.pages[min(sess.posts + 1, Len(args.pages))]

\* line 276
Stops(is_last, next_page_token, found) ==
    Truthy(is_last) \/ ~Truthy(next_page_token) \/ Len(found) >= desired_total

\* one pass of the loop, lines 233-277: a request is sent and its answer read
search_request ==
    /\ pc = "while"
    /\ LET response == Response(session)
           results == response.json
           found == session.issues \o Val(Get(results, "issues", EmptyList))
           is_last == Get(results, "isLast", True)
           next_page_token == Get(results, "nextPageToken", None)
           sent == [session EXCEPT !.payload = Payload(session),
                                   !.posts = min(session.posts + 1, Len(args.pages))]
       IN IF response.status_code # 200
          THEN /\ result' = ValueError(<<"JIRA API returned ">>)
               /\ session' = sent
               /\ pc' = "raised"
          ELSE IF "errorMessages" \in DOMAIN Val(results)
          THEN /\ result' = ValueError(Val(Val(results).errorMessages))
               /\ session' = sent
               /\ pc' = "raised"
          ELSE /\ session' = [sent EXCEPT !.issues = found,
                                          !.next_page_token = next_page_token]
               /\ pc' = IF Stops(is_last, next_page_token, found)
                        THEN "break" ELSE "while"
               /\ result' = result
    /\ UNCHANGED args
    /\ UNCHANGED <<aggregation_vars, period_vars, run_vars>>

\* every issue read is returned
Take_All(found, n) == found

\* issues[:n] for n >= 1
Take(found, n) == SubSeq(found, 1, min(n, Len(found)))

\* line 281
search_return ==
    /\ pc = "break"
    /\ result' = Return(Take(session.issues, desired_total))
    /\ pc' = "returned"
    /\ UNCHANGED <<args, session>>
    /\ UNCHANGED <<aggregation_vars, period_vars, run_vars>>

NextSearch ==
    \/ _search
    \/ search_request
    \/ search_return

SpecSearch == InitSearch /\ [][NextSearch]_vars

\* the loop is scheduled until it breaks and the call until it returns
FairSpecSearch == SpecSearch /\ WF_vars(NextSearch)

----------------------------------------------------------------------------
(* create_github_config, config_utils.py lines 41-81, and the label a
   workflow computes for the dates of the config *)

Workflows == {"jira-analysis", "gh-analysis"}

InitShared ==
    /\ AggregationIdle
    /\ PeriodIdle
    /\ RunIdle
    /\ \E pair \in DatePairs, workflow \in Workflows :
          args = [start_date |-> pair[1], end_date |-> pair[2], workflow |-> workflow]
    /\ result = None
    /\ session = None
    /\ pc = "create_github_config"

\* the config is written with the label of the shared formatter; session
\* holds the file
create_github_config ==
    /\ pc = "create_github_config"
    /\ LET label == format_analysis_period(args.start_date, args.end_date) IN
       IF IsError(label)
       THEN pc' = "raised" /\ result' = label /\ session' = session
       ELSE /\ session' = [start_date |-> args.start_date, end_date |-> args.end_date,
                           analysis_period |-> label.return]
            /\ result' = result
            /\ pc' = "load_config"
    /\ UNCHANGED args
    /\ UNCHANGED <<aggregation_vars, period_vars, run_vars>>

\* load_config of a workflow computes the label from the dates of the config:
\* jira-analysis line 508, gh-analysis line 414
FormatInWorkflow ==
    /\ pc = "load_config"
    /\ result' = IF args.workflow = "jira-analysis"
                 THEN _format_analysis_period(session.start_date, session.end_date)
                 ELSE gh_format_analysis_period(session.start_date, session.end_date)
    /\ pc' = "loaded"
    /\ UNCHANGED <<args, session>>
    /\ UNCHANGED <<aggregation_vars, period_vars, run_vars>>

NextShared ==
    \/ create_github_config
    \/ FormatInWorkflow

SpecShared == InitShared /\ [][NextShared]_vars

----------------------------------------------------------------------------
(* What the claims speak about, read off the input issue list *)

\* the sprint ids an issue references in its sprint field
SprintIdsOf(issue) ==
    LET f == Get(Fields(issue), "customfield_10020", None) IN
    IF Kind(f) = "list" THEN {Get(Val(f)[j], "id", None) : j \in DOMAIN Val(f)} ELSE {}

\* the positions of the issues that reference the sprint
MemberIndices(sprint_id) ==
    {i \in DOMAIN issues : sprint_id \in SprintIdsOf(issues[i])}

\* the story points an issue carries, absent counted as 0
DeclaredPoints(issue) ==
    LET p == Get(Fields(issue), "customfield_10033", None) IN
    IF Kind(p) = "int" THEN Val(p) ELSE 0

\* a equals the lower-case literal lit up to letter case
SameIgnoringCase(a, lit) ==
    /\ Len(a) = Len(lit)
    /\ \A i \in DOMAIN lit :
          \/ a[i] = lit[i]
          \/ \E j \in DOMAIN LowerCase : LowerCase[j] = lit[i] /\ UpperCase[j] = a[i]

\* the status is done, closed or resolved, whatever the letter case
HasCompletedStatus(issue) ==
    \E lit \in {<<"d", "o", "n", "e">>, <<"c", "l", "o", "s", "e", "d">>,
                <<"r", "e", "s", "o", "l", "v", "e", "d">>} :
        SameIgnoringCase(Val(StatusName(issue)), lit)

RECURSIVE SumOn(_, _)
SumOn(f, S) ==
    IF S = {} THEN 0
    ELSE LET x == CHOOSE x \in S : TRUE IN f[x] + SumOn(f, S \ {x})

\* the story points of the issues at the positions S
PointsOn(S) == SumOn([i \in DOMAIN issues |-> DeclaredPoints(issues[i])], S)

CompletedMembers(sprint_id) ==
    {i \in MemberIndices(sprint_id) : HasCompletedStatus(issues[i])}

Records == {sprint_metrics[name] : name \in DOMAIN sprint_metrics}

----------------------------------------------------------------------------
(* Claims *)

\* C1: in the returned metrics, the velocity of every sprint equals its
\* completed_points and is the sum of the story points (absent counted as 0) of
\* exactly the member issues whose status is done, closed or resolved; a member
\* with points and any other status adds nothing.
C1_VelocityIsCompletedStoryPoints ==
    pc = "done" =>
        \A m \in Records :
            /\ m.velocity = m.completed_points
            /\ m.velocity = PointsOn(CompletedMembers(m.sprint_id))

\* C1 witness: a returned sprint with a completed member carrying points and a
\* member in another status that carries points too.
C1_Witness ==
    /\ pc = "done"
    /\ \E m \in Records :
          /\ \E i \in CompletedMembers(m.sprint_id) : DeclaredPoints(issues[i]) > 0
          /\ \E i \in MemberIndices(m.sprint_id) \ CompletedMembers(m.sprint_id) :
                DeclaredPoints(issues[i]) > 0
          /\ m.velocity > 0

\* C2: in the returned metrics, completed_issues of every sprint is the number
\* of member issues whose status name is, up to letter case, exactly done,
\* closed or resolved.
C2_CompletedIssuesExactMatch ==
    pc = "done" =>
        \A m \in Records :
            m.completed_issues = Cardinality(CompletedMembers(m.sprint_id))

\* C2 witness: a returned sprint with a member whose status is one of the
\* literals in another letter case, counted, and a member whose status only
\* contains or surrounds a literal, not counted.
C2_Witness ==
    /\ pc = "done"
    /\ \E m \in Records :
          /\ \E i \in MemberIndices(m.sprint_id) :
                /\ HasCompletedStatus(issues[i])
                /\ StatusName(issues[i]) \notin CompletedStatuses
          /\ \E i \in MemberIndices(m.sprint_id) :
                Val(StatusName(issues[i])) \in {<<"N", "o", "t", " ", "D", "o", "n", "e">>,
                                             <<"D", "o", "n", "e", " ">>}
          /\ m.completed_issues = 1
          /\ m.total_issues = 2


\* the positions of the members of the sprint that the aggregator files under
\* the epic key
EpicMembers(sprint_id, epic_key) ==
    {i \in MemberIndices(sprint_id) : SprintEpicKey(issues[i]) = epic_key}

\* the epic keys of the members of the sprint
MemberEpicKeys(sprint_id) ==
    {SprintEpicKey(issues[i]) : i \in MemberIndices(sprint_id)}

\* the sum of the fractions alloc[k], k in S
RECURSIVE FracSum(_, _)
FracSum(alloc, S) ==
    IF S = {} THEN [num |-> 0, den |-> 1]
    ELSE LET x == CHOOSE x \in S : TRUE
             rest == FracSum(alloc, S \ {x})
         IN [num |-> alloc[x].num * rest.den + rest.num * alloc[x].den,
             den |-> alloc[x].den * rest.den]

Abs(n) == IF n < 0 THEN -n ELSE n

\* the fraction is within 0.01 of 100
Near100(q) == q.den # 0 /\ Abs(q.num - 100 * q.den) * 100 <= Abs(q.den)

\* every entry of the allocation is weight[k] / total * 100
IsShareOf(alloc, weight, total) ==
    \A k \in DOMAIN alloc :
        /\ alloc[k].den # 0
        /\ alloc[k].num * total = 100 * weight[k] * alloc[k].den

\* the allocation of the record is by story points
PointsBased(m) ==
    IsShareOf(m.epic_allocation,
              [k \in DOMAIN m.epic_allocation |-> PointsOn(EpicMembers(m.sprint_id, k))],
              PointsOn(MemberIndices(m.sprint_id)))

\* the allocation of the record is by issue count
CountBased(m) ==
    IsShareOf(m.epic_allocation,
              [k \in DOMAIN m.epic_allocation |-> Cardinality(EpicMembers(m.sprint_id, k))],
              Cardinality(MemberIndices(m.sprint_id)))

\* C3: for every returned sprint whose members have total story points > 0,
\* each epic_allocation entry is points[epic_key] / total_points * 100 and the
\* entries sum to 100 within 0.01.
C3_PointAllocationSumsTo100 ==
    pc = "done" =>
        \A m \in Records :
            PointsOn(MemberIndices(m.sprint_id)) > 0 =>
                /\ PointsBased(m)
                /\ Near100(FracSum(m.epic_allocation, DOMAIN m.epic_allocation))

\* C3 witness: a returned sprint with points on two epics.
C3_Witness ==
    /\ pc = "done"
    /\ \E m \in Records :
          /\ PointsOn(MemberIndices(m.sprint_id)) > 0
          /\ \E j, k \in DOMAIN m.epic_allocation :
                j # k /\ m.epic_allocation[j].num > 0 /\ m.epic_allocation[k].num > 0

\* C4: for every returned sprint whose members carry no story points and that
\* has a member, each epic_allocation entry is count[epic_key] / total_issues *
\* 100 over the epic keys of its members and the entries sum to 100; with
\* total story points > 0 the entries are by story points instead.
C4_CountAllocationFallback ==
    pc = "done" =>
        \A m \in Records :
            /\ (PointsOn(MemberIndices(m.sprint_id)) = 0 /\ MemberIndices(m.sprint_id) # {}) =>
                   /\ DOMAIN m.epic_allocation = MemberEpicKeys(m.sprint_id)
                   /\ CountBased(m)
                   /\ Near100(FracSum(m.epic_allocation, DOMAIN m.epic_allocation))
            /\ PointsOn(MemberIndices(m.sprint_id)) > 0 => PointsBased(m)

\* C4 witness: a returned sprint without story points whose members fall under
\* two epics.
C4_Witness ==
    /\ pc = "done"
    /\ \E m \in Records :
          /\ PointsOn(MemberIndices(m.sprint_id)) = 0
          /\ Cardinality(DOMAIN m.epic_allocation) = 2
          /\ \A k \in DOMAIN m.epic_allocation : m.epic_allocation[k].num = 100

\* C5 as stated: for every returned sprint with total story points > 0, the
\* keys of epic_allocation are exactly the epic keys with nonzero accumulated
\* story points.
C5_KeysAreNonzeroEpics ==
    pc = "done" =>
        \A m \in Records :
            PointsOn(MemberIndices(m.sprint_id)) > 0 =>
                DOMAIN m.epic_allocation =
                    {k \in MemberEpicKeys(m.sprint_id) :
                        PointsOn(EpicMembers(m.sprint_id, k)) # 0}

\* C5 amended: for every returned sprint with total story points > 0, the keys
\* of epic_allocation are exactly the epic keys of its member issues; an epic
\* whose members all carry zero or absent story points has an entry of 0.
C5_KeysAreMemberEpics ==
    pc = "done" =>
        \A m \in Records :
            PointsOn(MemberIndices(m.sprint_id)) > 0 =>
                /\ DOMAIN m.epic_allocation = MemberEpicKeys(m.sprint_id)
                /\ \A k \in MemberEpicKeys(m.sprint_id) :
                      PointsOn(EpicMembers(m.sprint_id, k)) = 0 =>
                          m.epic_allocation[k].num = 0

\* C5 witness: a returned sprint with story points in which one epic has none.
C5_Witness ==
    /\ pc = "done"
    /\ \E m \in Records :
          /\ PointsOn(MemberIndices(m.sprint_id)) > 0
          /\ \E k \in DOMAIN m.epic_allocation :
                /\ PointsOn(EpicMembers(m.sprint_id, k)) = 0
                /\ m.epic_allocation[k].num = 0


\* the classification rule of the claims: the parent key when one is present,
\* else the issue's own key when its type is epic, else "Uncategorized"
HasParentKey(issue) ==
    LET parent == Get(Fields(issue), "parent", None) IN
    \/ Kind(parent) = "str" /\ Val(parent) # ""
    \/ Kind(parent) = "dict" /\ "key" \in DOMAIN Val(parent) /\ Truthy(Val(parent)["key"])

TypeIsEpic(issue) ==
    SameIgnoringCase(Val(Get(Get(Fields(issue), "issuetype", EmptyDict), "name", Text(<<>>))),
                     <<"e", "p", "i", "c">>)

RuleEpicKey(issue) ==
    LET parent == Get(Fields(issue), "parent", None) IN
    IF HasParentKey(issue)
    THEN IF Kind(parent) = "dict" THEN Val(parent)["key"] ELSE parent
    ELSE IF TypeIsEpic(issue) THEN Get(issue, "key", None)
    ELSE Str("Uncategorized")

\* C9 as stated: the sprint aggregator files every member issue under the epic
\* key of the rule: the keys of every returned sprint's epic_allocation are the
\* rule's keys of its members, also for an epic-typed issue whose parent record
\* carries no key.
C9_ClassificationRule ==
    pc = "done" =>
        \A m \in Records :
            DOMAIN m.epic_allocation =
                {RuleEpicKey(issues[i]) : i \in MemberIndices(m.sprint_id)}

\* the rollup buckets that hold the issue
BucketsOf(issue) == {k \in DOMAIN epics : issue \in Range(epics[k].issues)}

DayOf(date_str) == Val(date_str)[1]

HasBothDates(sprint_info) ==
    Kind(sprint_info.startDate) = "date" /\ Kind(sprint_info.endDate) = "date"

\* sprint.start > period.end or sprint.end < period.start, as calendar dates
OutsidePeriod(sprint_info) ==
    /\ HasBothDates(sprint_info)
    /\ \/ DayOf(sprint_info.startDate) > DayOf(end_date)
       \/ DayOf(sprint_info.endDate) < DayOf(start_date)

\* sprint.start <= period.end and sprint.end >= period.start, as calendar dates
OverlapsPeriod(sprint_info) ==
    /\ HasBothDates(sprint_info)
    /\ DayOf(sprint_info.startDate) <= DayOf(end_date)
    /\ DayOf(sprint_info.endDate) >= DayOf(start_date)

Selected == pc \in {"epics", "metrics", "done"}

\* C6: a sprint whose date range in the sprint registry does not overlap the
\* period is not among the selected sprints, and no returned metrics record is
\* that sprint's, whatever member issues it has.
C6_OutsideSprintsAbsent ==
    Selected =>
        \A x \in DOMAIN sprint_map :
            OutsidePeriod(sprint_map[x]) =>
                /\ \A y \in DOMAIN filtered_sprints :
                      filtered_sprints[y].id # sprint_map[x].id
                /\ \A m \in Records : m.sprint_id # sprint_map[x].id

\* C6 witness: a sprint outside the period with a member issue, beside a
\* returned sprint.
C6_Witness ==
    /\ pc = "done"
    /\ Records # {}
    /\ \E x \in DOMAIN sprint_map :
          /\ OutsidePeriod(sprint_map[x])
          /\ MemberIndices(sprint_map[x].id) # {}

\* C7 as stated: every referenced sprint with both dates whose range overlaps
\* the period as calendar dates, boundaries included, is selected.
C7_OverlappingSprintsSelected ==
    Selected =>
        \A x \in DOMAIN sprint_map :
            OverlapsPeriod(sprint_map[x]) =>
                \E y \in DOMAIN filtered_sprints : filtered_sprints[y] = sprint_map[x]

\* C8 as stated: the returned metrics hold one record per selected sprint with
\* a member issue, and each such sprint has a record with its own id and its
\* own issues, also when two selected sprints carry the same name.
C8_OneRecordPerSprint ==
    pc = "done" =>
        LET ids == {filtered_sprints[y].id : y \in DOMAIN filtered_sprints}
            withMembers == {id \in ids : MemberIndices(id) # {}}
        IN /\ Cardinality(DOMAIN sprint_metrics) = Cardinality(withMembers)
           /\ \A id \in withMembers :
                 \E m \in Records :
                     /\ m.sprint_id = id
                     /\ {m.all_issues[i].key : i \in DOMAIN m.all_issues} =
                            {Get(issues[i], "key", None) : i \in MemberIndices(id)}

\* the seconds an issue declares in the field, absent or null counted as 0
DeclaredSeconds(issue, f) ==
    LET v == Get(Fields(issue), f, None) IN
    IF Kind(v) = "int" THEN Val(v) ELSE 0

\* the positions of the issues held by the rollup bucket
BucketIndices(k) == {i \in DOMAIN issues : issues[i] \in Range(epics[k].issues)}

RolledUp == pc \in {"metrics", "done"}

\* a sprint the issue references lies in the selected sprints
InSelectedSprint(issue) ==
    \E y \in DOMAIN filtered_sprints : filtered_sprints[y].id \in SprintIdsOf(issue)

\* C11: the epic rollup covers the whole issue list: every fetched issue is in
\* exactly one bucket, the bucket issue counts sum to the number of issues, and
\* each bucket's total_time_spent and total_time_estimate are the sums of
\* timespent and timeoriginalestimate (absent or null counted as 0) over the
\* issues of the bucket, whether or not they belong to a selected sprint.
C11_RollupCoversAllIssues ==
    RolledUp =>
        /\ \A i \in DOMAIN issues : Cardinality(BucketsOf(issues[i])) = 1
        /\ SumOn([k \in DOMAIN epics |-> Len(epics[k].issues)], DOMAIN epics) = Len(issues)
        /\ \A k \in DOMAIN epics :
              /\ Cardinality(BucketIndices(k)) = Len(epics[k].issues)
              /\ epics[k].total_time_spent =
                     SumOn([i \in DOMAIN issues |-> DeclaredSeconds(issues[i], "timespent")],
                           BucketIndices(k))
              /\ epics[k].total_time_estimate =
                     SumOn([i \in DOMAIN issues |->
                               DeclaredSeconds(issues[i], "timeoriginalestimate")],
                           BucketIndices(k))

\* C11 witness: a bucket of two issues with logged time, one in no sprint or
\* only in a sprint outside the period, whose totals count both.
C11_Witness ==
    /\ pc = "done"
    /\ \E k \in DOMAIN epics :
          /\ Len(epics[k].issues) = 2
          /\ \E i \in BucketIndices(k) :
                /\ ~InSelectedSprint(issues[i])
                /\ DeclaredSeconds(issues[i], "timespent") > 0
                /\ DeclaredSeconds(issues[i], "timeoriginalestimate") > 0
          /\ \E i \in BucketIndices(k) : SprintIdsOf(issues[i]) = {Num(3)}
          /\ epics[k].total_time_spent = 4
          /\ epics[k].total_time_estimate >= 5
\* the text an issue declares in the field, absent or null counted as dflt
DeclaredOr(issue, f, dflt) ==
    LET v == Get(Fields(issue), f, None) IN
    IF Kind(v) = "none" THEN dflt ELSE v

\* the status name an issue declares, the empty string without a status
DeclaredStatus(issue) ==
    LET s == Get(Fields(issue), "status", None) IN
    IF Kind(s) = "dict" THEN Get(s, "name", Text(<<>>)) ELSE Text(<<>>)

\* C12 as stated: the aggregation is total over issue lists whose records
\* lack optional fields (absent or null): no step raises, every issue of the
\* batch reaches the rollup, and in the returned metrics missing times count
\* as 0 and a missing summary or status reads as the empty string.
C12_AggregationIsTotal ==
    /\ pc # "raised"
    /\ RolledUp => \A i \in DOMAIN issues : Cardinality(BucketsOf(issues[i])) = 1
    /\ pc = "done" =>
          \A m \in Records :
              /\ m.total_spent =
                     SumOn([i \in DOMAIN issues |-> DeclaredSeconds(issues[i], "timespent")],
                           MemberIndices(m.sprint_id))
              /\ m.total_estimate =
                     SumOn([i \in DOMAIN issues |->
                               DeclaredSeconds(issues[i], "timeoriginalestimate")],
                           MemberIndices(m.sprint_id))
              /\ \A i \in MemberIndices(m.sprint_id) :
                     \E j \in DOMAIN m.all_issues :
                         /\ m.all_issues[j].key = Get(issues[i], "key", None)
                         /\ m.all_issues[j].summary =
                                DeclaredOr(issues[i], "summary", Str(""))
                         /\ m.all_issues[j].status = DeclaredStatus(issues[i])
\* the sprint's range meets the period as the code compares them: instants
\* against the midnights that open the period's first and last day
MeetsPeriod(sprint_info) ==
    /\ HasBothDates(sprint_info)
    /\ _parse_jira_date(sprint_info.startDate) <= strptime_date(end_date)
    /\ _parse_jira_date(sprint_info.endDate) >= strptime_date(start_date)

\* C13: a referenced sprint whose start date or end date is absent is not
\* among the selected sprints and has no metrics record; it raises no error,
\* and the other sprints are still selected and, when they have member
\* issues, still get their metrics record.
C13_DatelessSprintsExcluded ==
    /\ pc # "raised"
    /\ Selected =>
          \A x \in DOMAIN sprint_map :
              /\ ~HasBothDates(sprint_map[x]) =>
                     /\ \A y \in DOMAIN filtered_sprints :
                           filtered_sprints[y].id # sprint_map[x].id
                     /\ \A m \in Records : m.sprint_id # sprint_map[x].id
              /\ MeetsPeriod(sprint_map[x]) =>
                     \E y \in DOMAIN filtered_sprints : filtered_sprints[y] = sprint_map[x]
    /\ pc = "done" =>
          \A y \in DOMAIN filtered_sprints :
              MemberIndices(filtered_sprints[y].id) # {} =>
                  filtered_sprints[y].name \in DOMAIN sprint_metrics

\* C13 witness: the first issue references a sprint without start date or
\* without end date, the second a sprint inside the period, which is returned.
C13_Witness ==
    /\ pc = "done"
    /\ Len(sprint_map) = 2
    /\ ~HasBothDates(sprint_map[1])
    /\ MemberIndices(sprint_map[1].id) = {1}
    /\ \E m \in Records : m.sprint_id = sprint_map[2].id /\ m.total_issues = 1
----------------------------------------------------------------------------
(* What the period claims speak about, read off the token *)

\* the resolver has been called on the token
Resolved == Kind(parsed) # "none"

\* the token without the whitespace around it
Core(token) ==
    LET inked == {i \in DOMAIN token : token[i] \notin Whitespace} IN
    IF inked = {} THEN <<>>
    ELSE SubSeq(token, CHOOSE i \in inked : \A j \in inked : i <= j,
                       CHOOSE i \in inked : \A j \in inked : i >= j)

\* the same text up to letter case
EqualUpToCase(a, b) ==
    /\ Len(a) = Len(b)
    /\ \A i \in DOMAIN a :
          \/ a[i] = b[i]
          \/ \E j \in DOMAIN LowerCase :
                {a[i], b[i]} = {LowerCase[j], UpperCase[j]}

\* the token is the year followed by the suffix, whitespace and case ignored
Reads(token, year, suffix) == EqualUpToCase(Core(token), year \o suffix)

\* YYYY, YYYYH1, YYYYH2 or YYYYQ1..YYYYQ4, whitespace and case ignored
HasAcceptedShape(token) ==
    LET c == Core(token) IN
    /\ Len(c) \in {4, 6}
    /\ AllDigits(SubSeq(c, 1, 4))
    /\ \E suffix \in AcceptedSuffixes : EqualUpToCase(SubSeq(c, 5, Len(c)), suffix)

\* the mapping of the claims: suffix, start and end as month-day
PeriodRanges ==
    {<<<<"H", "1">>, Jan01, Jun30>>, <<<<"H", "2">>, Jul01, Dec31>>,
     <<<<"Q", "1">>, Jan01, Mar31>>, <<<<"Q", "2">>, Apr01, Jun30>>,
     <<<<"Q", "3">>, Jul01, Sep30>>, <<<<"Q", "4">>, Oct01, Dec31>>,
     <<<<>>, Jan01, Dec31>>}

\* "Y-MM-DD" with the year as written
Ymd(year, mmdd) == year \o <<"-">> \o mmdd

\* C14 as stated: for every four-digit year Y and every accepted suffix, both
\* resolvers map the token, whitespace and letter case ignored, to the dates
\* of the mapping, each in the form YYYY-MM-DD with the year Y.
C14_TokensMapToDates ==
    Resolved =>
        \A year \in Years : \A r \in PeriodRanges :
            Reads(period_str, year, r[1]) =>
                /\ parsed.cli = Return(<<Ymd(year, r[2]), Ymd(year, r[3])>>)
                /\ parsed.jira = Return(<<Ymd(year, r[2]), Ymd(year, r[3])>>)

\* C15: for every token that, whitespace and letter case ignored, is not
\* YYYY, YYYYH1, YYYYH2 or YYYYQ1..YYYYQ4, both resolvers return no dates and
\* raise the error "Invalid period format" whose message ends by restating
\* the accepted formats.
C15_OtherTokensRejected ==
    Resolved =>
        (~HasAcceptedShape(period_str) =>
            /\ pc = "rejected"
            /\ dates = <<>>
            /\ \A who \in {"cli", "jira"} :
                  /\ IsError(parsed[who])
                  /\ Head(parsed[who].raise) = "Invalid period format: "
                  /\ parsed[who].raise[Len(parsed[who].raise)] = AcceptedFormats)

\* C15 witness: the token 25H2, typed in lower case between whitespace,
\* rejected.
C15_Witness ==
    /\ pc = "rejected"
    /\ Core(period_str) = <<"2", "5", "h", "2">>
    /\ Len(period_str) > 4
    /\ IsError(parsed.cli) /\ IsError(parsed.jira)
\* the prose of the canonical label of a suffix
LabelProse(suffix) ==
    CASE suffix = <<>> -> " (January 1 - December 31, "
      [] suffix = <<"H", "1">> -> " (January 1 - June 30, "
      [] suffix = <<"H", "2">> -> " (July 1 - December 31, "
      [] suffix = <<"Q", "1">> -> " (January 1 - March 31, "
      [] suffix = <<"Q", "2">> -> " (April 1 - June 30, "
      [] suffix = <<"Q", "3">> -> " (July 1 - September 30, "
      [] suffix = <<"Q", "4">> -> " (October 1 - December 31, "

\* the canonical tokens: a year and an accepted suffix, upper case, unpadded
CanonicalTokens == {<<year, suffix>> : year \in Years, suffix \in AcceptedSuffixes}

\* the label of the jira formatter for the dates the jira resolver returns
LabelOfToken(token) ==
    LET d == _parse_period(token) IN
    IF IsError(d) THEN d ELSE _format_analysis_period(d.return[1], d.return[2])

\* C16 as stated: for every canonical token T, of any year, formatting the
\* dates returned by parsing T yields, in both formatters, the canonical label
\* that begins with T, "T (<first day> - <last day>, Y)", and the labels of
\* two different canonical tokens are never the same.
C16_FormatInvertsParse ==
    /\ (pc = "labelled" /\ Resolved) =>
          \A c \in CanonicalTokens :
              period_str = c[1] \o c[2] =>
                  \A who \in {"jira", "gh"} :
                      labels[who] =
                          Return(c[1] \o c[2] \o <<LabelProse(c[2])>> \o c[1] \o <<")">>)
    /\ pc = "labelled" =>
          \A c1, c2 \in CanonicalTokens :
              c1 # c2 =>
                  \/ IsError(LabelOfToken(c1[1] \o c1[2]))
                  \/ IsError(LabelOfToken(c2[1] \o c2[2]))
                  \/ LabelOfToken(c1[1] \o c1[2]) # LabelOfToken(c2[1] \o c2[2])

\* the dates are those of a canonical period of one year
IsCanonicalPair(d) ==
    \E r \in PeriodRanges :
        /\ Len(d[1]) = 10
        /\ AllDigits(SubSeq(d[1], 1, 4))
        /\ d[1] = Ymd(SubSeq(d[1], 1, 4), r[2])
        /\ d[2] = Ymd(SubSeq(d[1], 1, 4), r[3])

\* C17 as stated: for every pair of dates that is not the result of parsing a
\* canonical token, pairs whose start and end lie in different years
\* included, both formatters return "{start} to {end}".
C17_OtherPairsFallBack ==
    pc = "labelled" =>
        (~IsCanonicalPair(dates) =>
            \A who \in {"jira", "gh"} :
                labels[who] = Return(dates[1] \o <<" to ">> \o dates[2]))
----------------------------------------------------------------------------
(* What the workflow claims speak about *)

\* run() was started with a period token that has none of the accepted shapes
InvalidPeriodGiven ==
    /\ pc # "run"
    /\ Kind(state.period) = "text"
    /\ Val(state.period) # <<>>
    /\ ~HasAcceptedShape(Val(state.period))

\* load_config reads the period token: centralized config that exists and
\* lists the user, a username, a JIRA URL, a token that is not empty
PeriodIsRead ==
    /\ pc # "run"
    /\ world.centralized /\ world.username
    /\ world.config_exists /\ world.user_found /\ world.jira_url
    /\ Truthy(state.period)

\* the recorded error is the resolver's
InvalidPeriodRecorded ==
    /\ Kind(state.error) = "text"
    /\ Head(Val(state.error)) = "Invalid period format: "
    /\ Val(state.error)[Len(Val(state.error))] = AcceptedFormats

----------------------------------------------------------------------------
(* What the claims on the order of the lists speak about *)

\* the elements of a set of positions, in ascending order
RECURSIVE Ascending(_)
Ascending(S) ==
    IF S = {} THEN <<>>
    ELSE LET least == CHOOSE x \in S : \A y \in S : x <= y
         IN <<least>> \o Ascending(S \ {least})

\* the keys of the issues at the positions S, in the order of the input list
KeysInInputOrder(S) ==
    LET at == Ascending(S) IN
    [j \in DOMAIN at |-> Get(issues[at[j]], "key", None)]

\* C19: for every returned sprint, all_issues lists every member issue exactly
\* once in the order of the input issue list, accomplishments lists the
\* members whose status is done, closed or resolved in that same order, and
\* the length of accomplishments is completed_issues.
C19_ListsKeepInputOrder ==
    pc = "done" =>
        \A m \in Records :
            /\ [j \in DOMAIN m.all_issues |-> m.all_issues[j].key] =
                   KeysInInputOrder(MemberIndices(m.sprint_id))
            /\ [j \in DOMAIN m.accomplishments |-> m.accomplishments[j].key] =
                   KeysInInputOrder(CompletedMembers(m.sprint_id))
            /\ Len(m.accomplishments) = m.completed_issues

\* C19 witness: a returned sprint with two completed members, listed in both
\* lists in the order of the input.
C19_Witness ==
    /\ pc = "done"
    /\ Len(issues) = 2
    /\ \E m \in Records :
          /\ Len(m.all_issues) = 2
          /\ Len(m.accomplishments) = 2
          /\ m.accomplishments[1].key = Get(issues[1], "key", None)
          /\ m.accomplishments[2].key = Get(issues[2], "key", None)
          /\ m.all_issues[1].key = Get(issues[1], "key", None)

----------------------------------------------------------------------------
(* What the claim on conflicting sprint metadata speaks about *)

\* the sprint field of the issue at position i, as a sequence of entries
SprintsFieldOf(i) ==
    LET f == Get(Fields(issues[i]), "customfield_10020", None) IN
    IF Kind(f) = "list" THEN Val(f) ELSE <<>>

\* where the sprint id occurs: <<position of the issue, position in its field>>
Occurrences(sprint_id) ==
    UNION {{<<i, j>> : j \in {k \in DOMAIN SprintsFieldOf(i) :
                                 Get(SprintsFieldOf(i)[k], "id", None) = sprint_id}} :
           i \in DOMAIN issues}

\* o comes before p in iteration order
Before(o, p) == o[1] < p[1] \/ (o[1] = p[1] /\ o[2] <= p[2])

FirstOccurrence(sprint_id) ==
    CHOOSE o \in Occurrences(sprint_id) : \A p \in Occurrences(sprint_id) : Before(o, p)

LastOccurrence(sprint_id) ==
    CHOOSE o \in Occurrences(sprint_id) : \A p \in Occurrences(sprint_id) : Before(p, o)

\* the metadata an occurrence carries
MetadataAt(o) == SprintInfo(SprintsFieldOf(o[1])[o[2]])

LastSeen(sprint_id) == MetadataAt(LastOccurrence(sprint_id))

SeenIds == UNION {SprintIdsOf(issues[i]) : i \in DOMAIN issues}

Scanned == pc \in {"filter", "epics", "metrics", "done"}

\* C20: after the scan the sprint registry holds, for every sprint id seen,
\* one entry, the metadata of the last occurrence in iteration order (issues
\* in list order, entries in field order); the sprint is selected exactly when
\* that last-seen date range overlaps the period, and a returned record of the
\* sprint carries the last-seen name and dates and is returned under it.
C20_LastSeenMetadataWins ==
    Scanned =>
        \A sprint_id \in SeenIds :
            /\ \E x \in DOMAIN sprint_map :
                  /\ sprint_map[x] = LastSeen(sprint_id)
                  /\ \A y \in DOMAIN sprint_map :
                        sprint_map[y].id = sprint_id => y = x
            /\ Selected =>
                  /\ OverlapsPeriod(LastSeen(sprint_id)) <=>
                        \E y \in DOMAIN filtered_sprints :
                            filtered_sprints[y].id = sprint_id
                  /\ \A y \in DOMAIN filtered_sprints :
                        filtered_sprints[y].id = sprint_id =>
                            filtered_sprints[y] = LastSeen(sprint_id)
            /\ pc = "done" =>
                  /\ OverlapsPeriod(LastSeen(sprint_id)) =>
                        \E m \in Records : m.name = LastSeen(sprint_id).name
                  /\ \A m \in Records :
                        m.sprint_id = sprint_id =>
                            /\ m.name = LastSeen(sprint_id).name
                            /\ m.start_date = LastSeen(sprint_id).startDate
                            /\ m.end_date = LastSeen(sprint_id).endDate

\* C20 witness: a sprint id first seen under one name with dates outside the
\* period and last seen, on a later issue, under another name with dates
\* inside it, returned under the last-seen name.
C20_Witness ==
    /\ pc = "done"
    /\ \E sprint_id \in SeenIds :
          LET first == MetadataAt(FirstOccurrence(sprint_id))
              last == LastSeen(sprint_id)
          IN /\ FirstOccurrence(sprint_id)[1] < LastOccurrence(sprint_id)[1]
             /\ first.name # last.name
             /\ first.state # last.state
             /\ OutsidePeriod(first)
             /\ OverlapsPeriod(last)
             /\ \E m \in Records : m.sprint_id = sprint_id /\ m.name = last.name

----------------------------------------------------------------------------
(* What the claims on the command-line helpers speak about *)

\* both dates are given, each a date strptime reads, and no period
ExplicitDatesOnly ==
    /\ pc = "called"
    /\ "period" \in DOMAIN args
    /\ ~Truthy(args.period)
    /\ Truthy(args.start_date) /\ Truthy(args.end_date)
    /\ ~IsError(strptime_ymd(Val(args.start_date)))
    /\ ~IsError(strptime_ymd(Val(args.end_date)))

\* the canonical period keys of the years the dates speak of
CanonicalKeys ==
    {year \o suffix : year \in Years \cup {<<"2", "0", "2", "6">>},
                      suffix \in AcceptedSuffixes}

\* C21 as stated: called with explicit dates and no period, resolve_time_range
\* returns the dates unchanged, with a canonical period key K if and only if
\* the dates equal parse_period(K), and with the key "{start}_to_{end}" for
\* every other pair.
C21_KeyInvertsParse ==
    ExplicitDatesOnly =>
        /\ DOMAIN result = {"return"}
        /\ result.return[2] = args.start_date
        /\ result.return[3] = args.end_date
        /\ \A K \in CanonicalKeys :
              result.return[1] = Text(K) <=>
                  parse_period(K) = Return(<<Val(args.start_date), Val(args.end_date)>>)
        /\ Val(result.return[1]) \notin CanonicalKeys =>
              result.return[1] = Text(RangeKey(Val(args.start_date), Val(args.end_date)))

\* C23: for every text, slugify(text) consists only of a-z, 0-9 and hyphens,
\* neither begins nor ends with a hyphen, holds no two hyphens in a row, and
\* slugify(slugify(text)) is slugify(text).
C23_SlugifyNormalizes ==
    pc \in {"unslugify", "reslugify"} =>
        /\ \A i \in DOMAIN result.slug : IsSlugChar(result.slug[i])
        /\ result.slug # <<>> =>
              Head(result.slug) # "-" /\ result.slug[Len(result.slug)] # "-"
        /\ \A i \in 1..(Len(result.slug) - 1) :
              ~(result.slug[i] = "-" /\ result.slug[i + 1] = "-")
        /\ slugify(result.slug) = result.slug

\* C23 witness: a text with an upper-case letter, a separator at its end and
\* a letter outside ASCII, whose slug is the one lower-case letter.
C23_Witness ==
    /\ pc = "unslugify"
    /\ args.text = <<"É", "B", "_">>
    /\ result.slug = <<"b">>

\* C24: for every slug s that slugify produces, slugify(unslugify(s)) is s,
\* and unslugify of the empty string is the empty string.
C24_SlugifyInvertsUnslugify ==
    pc = "called" =>
        /\ result.again = result.slug
        /\ result.slug = <<>> => result.name = <<>>

\* C24 witness: a slug of two words, unslugified to two capitalized words
\* with a space between them and slugified back.
C24_Witness ==
    /\ pc = "called"
    /\ result.slug = <<"b", "-", "a">>
    /\ result.name = <<"B", " ", "A">>
    /\ result.again = <<"b", "-", "a">>

\* a name and no username were given
NameOnly ==
    /\ pc = "called"
    /\ "prefer_email" \in DOMAIN args
    /\ Truthy(args.name)
    /\ Kind(args.username) = "none"

\* the users of the config
ListedUsers ==
    IF Truthy(args.config_data)
    THEN LET users == Val(Get(args.config_data, "users", EmptyList))
         IN {users[i] : i \in DOMAIN users}
    ELSE {}

\* the user's name matches the given name case-insensitively or by slug
MatchesName(user) ==
    LET stored == Val(Get(user, "name", Text(<<>>))) IN
    \/ EqualUpToCase(stored, Val(args.name))
    \/ slugify(stored) = slugify(Val(args.name))

\* the identifier of the claim: username falling back to email, or the
\* reverse when prefer_email is true
Identifier(user) ==
    LET username == Get(user, "username", None)
        email == Get(user, "email", None)
    IN IF args.prefer_email
       THEN IF Truthy(email) THEN email ELSE username
       ELSE IF Truthy(username) THEN username ELSE email

\* C22 as stated: called with a name and no username, resolve_user_identity
\* either returns the name as stored in the config and the identifier of a
\* user whose name matches, or reports an error through the parser; it
\* reports the error only when there is no config, no user matches or a
\* matching user has neither username nor email.
C22_ReturnsStoredNameAndIdentifier ==
    NameOnly =>
        /\ DOMAIN result \in {{"return"}, {"exit"}}
        /\ DOMAIN result = {"return"} =>
              \E user \in ListedUsers :
                  /\ MatchesName(user)
                  /\ Truthy(Identifier(user))
                  /\ result.return = <<Get(user, "name", None), Identifier(user)>>
        /\ DOMAIN result = {"exit"} =>
              \/ ~Truthy(args.config_data)
              \/ \A user \in ListedUsers : ~MatchesName(user)
              \/ \E user \in ListedUsers :
                    MatchesName(user) /\ ~Truthy(Identifier(user))

----------------------------------------------------------------------------
(* What the claims on the GitHub helpers speak about *)

\* the instant of a timestamp, in hours: Z and +00:00 are UTC, +02:00 is two
\* hours ahead of it
InstantOf(stamp) ==
    Val(stamp)[1] * 24 + Val(stamp)[2] - (IF Val(stamp)[3] = "+02:00" THEN 2 ELSE 0)

\* the positions of the entries by the user whose timestamp lies in the
\* closed interval
PositionsKept(entries, stamp_field) ==
    {i \in DOMAIN entries :
        /\ "user" \in DOMAIN Val(entries[i])
        /\ Val(entries[i]).user = GhUser("alice")
        /\ stamp_field \in DOMAIN Val(entries[i])
        /\ Kind(Val(entries[i])[stamp_field]) = "date"
        /\ InstantOf(Val(entries[i])[stamp_field]) >= args.start_dt
        /\ InstantOf(Val(entries[i])[stamp_field]) <= args.end_dt}

IsPullRequestUrl(url) ==
    /\ Len(url) >= 12
    /\ SubSeq(url, 1, 4) = GitHub
    /\ url[5] = "/" /\ url[6] # "/"
    /\ url[7] = "/" /\ url[8] # "/"
    /\ url[9] = "/" /\ url[10] = "pull"
    /\ url[11] = "/"
    /\ AllDigits(SubSeq(url, 12, Len(url)))

\* C26 as stated: _extract_pr_info returns None, without raising, for every
\* item whose html_url is missing, empty or not of the form
\* https://github.com/<owner>/<repo>/pull/<number>, and for a URL of that form
\* the owner, the repo and the integer number of the URL.
C26_ExtractPrInfoTotal ==
    (pc = "called" /\ "pr_item" \in DOMAIN args) =>
        LET html_url == Get(args.pr_item, "html_url", None) IN
        IF Kind(html_url) = "text" /\ IsPullRequestUrl(Val(html_url))
        THEN /\ DOMAIN result = {"return"}
             /\ Kind(result.return) = "dict"
             /\ Val(result.return).owner = Text(<<Val(html_url)[6]>>)
             /\ Val(result.return).repo = Text(<<Val(html_url)[8]>>)
             /\ Val(result.return).number =
                    Num(IntOf(SubSeq(Val(html_url), 12, Len(Val(html_url)))))
        ELSE result = Return(None)

\* load_config took the centralized branch, found the user and was given a
\* period key that the config does not define
UndefinedPeriodGiven ==
    /\ pc \in {"loaded", "raised"}
    /\ "periods" \in DOMAIN world
    /\ world.centralized /\ Truthy(args.state.username)
    /\ world.config_exists /\ world.user_found
    /\ Truthy(args.state.period)
    /\ Val(args.state.period) \notin world.periods

\* C27 as stated: load_config on a centralized config, given a period key
\* that is not defined among the periods of the config, sets an error whose
\* text mentions the period and sets no start and end date.
C27_UndefinedPeriodIsAnError ==
    UndefinedPeriodGiven =>
        /\ Kind(state.error) = "text"
        /\ \E i \in DOMAIN Val(state.error) :
              Val(state.error)[i] = "Invalid period format: "
        /\ state.start_date = <<>>
        /\ state.end_date = <<>>

\* a report file was written
ReportWritten == \E i \in DOMAIN effects : effects[i] = "write"

\* the nodes that follow load_config in the graph
LaterStages == {"fetch_jira", "analyze", "generate", "save"}

\* C28: in the JIRA workflow, once a stage has recorded an error, every later
\* stage returns the state unchanged (so the error and sprints, issues, epics,
\* sprint_metrics, analysis_results and markdown_report stay as they were),
\* save_report writes no file, run() raises RuntimeError carrying that error,
\* and a report file is written only in runs that finish with no error.
C28_ErrorIsSticky ==
    [][/\ (pc \in LaterStages /\ Truthy(state.error)) =>
              state' = state /\ effects' = effects
       /\ (pc = "end" /\ Truthy(state.error)) =>
              pc' = "raised" /\ result' = RuntimeError(Val(state.error))
       /\ ReportWritten' => ~Truthy(state'.error) /\ pc' # "raised"]_vars

\* a run in which the LLM call failed after a completed fetch has passed
\* generate and save and has raised the recorded error
C28_Witness ==
    /\ pc = "raised"
    /\ result = RuntimeError(<<"Vertex AI analysis failed: ">>)
    /\ state.issues = <<"issue">>
    /\ state.markdown_report = <<>>
    /\ ~ReportWritten

\* the answer is a page: status 200 and no errorMessages
IsPage(response) ==
    response.status_code = 200 /\ "errorMessages" \notin DOMAIN Val(response.json)

\* the page reports isLast or carries no nextPageToken
EndsPaging(response) ==
    \/ Truthy(Get(response.json, "isLast", False))
    \/ ~Truthy(Get(response.json, "nextPageToken", None))

\* every answer of the server is a page and its last page ends the paging, so
\* the server does not go on with non-last pages forever
ServerEndsPaging ==
    /\ \A i \in DOMAIN args.pages : IsPage(args.pages[i])
    /\ EndsPaging(args.pages[Len(args.pages)])

\* one step of a search: a page that was read is appended to the issues; the
\* loop is left after a page that reports isLast, carries no nextPageToken or
\* fills the issues up to max(1, max_results); no request follows the loop;
\* the result is the first max(1, max_results) issues
SearchStep ==
    /\ (pc = "while" /\ IsPage(Response(session))) =>
          /\ session'.issues =
                 session.issues \o Val(Val(Response(session).json).issues)
          /\ (\/ EndsPaging(Response(session))
              \/ Len(session'.issues) >= max(1, args.max_results)) => pc' = "break"
    /\ pc \in {"break", "returned", "raised"} => session' = session
    /\ pc' = "returned" =>
          /\ Len(result'.return) <= max(1, args.max_results)
          /\ result'.return = SubSeq(session'.issues, 1, Len(result'.return))
          /\ \/ Len(result'.return) = Len(session'.issues)
             \/ Len(result'.return) = max(1, args.max_results)

\* C29: JiraSession._search sends no further request after a page that reports
\* isLast, carries no nextPageToken or brings the accumulated issue count to
\* max(1, max_results); it returns the issues in page order, never more than
\* max(1, max_results) of them; and it eventually returns for every server
\* that does not answer with non-last pages forever.
C29_SearchIsBoundedAndTerminates ==
    /\ [][SearchStep]_vars
    /\ ("pages" \in DOMAIN args /\ ServerEndsPaging) => <>(pc = "returned")

\* a search that read two pages, stopped because the issues reached
\* max_results, and returned fewer issues than it had read
C29_Witness ==
    /\ pc = "returned"
    /\ session.posts = 2
    /\ Len(session.issues) = 3
    /\ result = Return(<<<<1, 1>>, <<2, 1>>>>)

\* C30 as stated: for every valid pair of dates the label that
\* create_github_config stores as analysis_period is the label the workflow
\* computes for the same dates.
C30_FormattersAgree ==
    (pc = "loaded" /\ "analysis_period" \in DOMAIN session) =>
        result = Return(session.analysis_period)

====
